---- MODULE Spec2Model ----
(***************************************************************************)
(* A model of the type system in libs/sqlalchemy/types.py: the bind and    *)
(* result processors of the built-in types, TypeDecorator and Variant,     *)
(* expression type inference, and the per-dialect memo of resolved         *)
(* implementations (dialect._type_memos).                                  *)
(***************************************************************************)
EXTENDS Integers, Sequences, FiniteSets, TLC

VARIABLES
    \* ---- processors applied to one value (SpecCodec)
    cT,        \* the type whose processors are applied
    cD,        \* the dialect configuration
    cV,        \* the application value handed to the bind processor
    cStage,    \* "start" | "bound" | "done"
    cStored,   \* what the bind processor returned
    cOut,      \* what the result processor returned for cStored
    cCalls,    \* the calls made to user-supplied process_* methods, in order
    \* ---- Variant objects (SpecVariant)
    vDicts,    \* the mapping dicts allocated so far, by identity
    vVariants, \* the Variant objects allocated so far: base type and mapping dict
    vLast,     \* the last with_variant call: arguments, outcome, heap before it
    \* ---- expression type inference (SpecInfer)
    iLeft,     \* the left operand's type
    iOp,       \* the operator
    iRight,    \* the right operand's type
    iStage,    \* "start" | "done"
    iResult,   \* what left._adapt_expression(op, right) returned: operator and type
    iAffinity, \* what left._type_affinity returned
    iCoerced,  \* the last left._coerce_compared_value call: value and type returned
    \* ---- dialect._type_memos and the threads resolving types (SpecMemo, SpecConc)
    mHeap,     \* the type objects: a sequence, an object's identity is its index
    mDicts,    \* the dict objects stored in the memos, by identity
    mMemo,     \* per dialect, _type_memos: type object -> dict object
    mThreads,  \* per thread: calls made, call in progress, stack of frames
    mActive,   \* the threads that make calls
    mScope,    \* the <<type object, dialect>> keys the threads resolve
    mColtypes, \* the coltype values callers pass to _cached_result_processor
    mLast,     \* per thread, the last completed call and the memos before it
    mFailures, \* how many times dialect.type_descriptor has raised
    \* ---- PickleType's value methods (SpecPickle)
    pType,     \* the PickleType instance
    pHeap,     \* the value objects: a sequence, an object's identity is its index
    pV,        \* the value handed to copy_value: an index of pHeap, 0 for None
    pCopy,     \* what copy_value returned
    pOrig,     \* the contents of the value when it was copied
    pStage,    \* "start" | "copied" | "changed"
    pCmp,      \* the last compare_values call and its result
    pMutable,  \* what is_mutable returned
    \* ---- adapt_type's arguments and result (SpecAdapt)
    aHeap,     \* the type objects: a sequence, an object's identity is its index
    aTypeobj,  \* the typeobj argument: a reference to an object or a class
    aColspecs, \* the colspecs argument, as <<generic class, implementation class>>
    aStage,    \* "start" | "done"
    aResult    \* the object adapt_type returned

codecVars == <<cT, cD, cV, cStage, cStored, cOut, cCalls>>

variantVars == <<vDicts, vVariants, vLast>>

inferVars == <<iLeft, iOp, iRight, iStage, iResult, iAffinity, iCoerced>>

memoVars ==
    <<mHeap, mDicts, mMemo, mThreads, mActive, mScope, mColtypes, mLast, mFailures>>

pickleVars == <<pType, pHeap, pV, pCopy, pOrig, pStage, pCmp, pMutable>>

adaptVars == <<aHeap, aTypeobj, aColspecs, aStage, aResult>>

vars == <<codecVars, variantVars, inferVars, memoVars, pickleVars, adaptVars>>

(***************************************************************************)
(* Python values.  Every value is a record with a kind.                    *)
(***************************************************************************)
None == [kind |-> "none"]

Raise(exc) == [kind |-> "raise", exc |-> exc]

IsRaise(v) == v.kind = "raise"

\* a unicode object: text is a sequence of characters
U(text) == [kind |-> "unicode", text |-> text]

\* a byte string: the encoding of text under enc ("raw" bytes carry enc)
B(text, enc) == [kind |-> "str", text |-> text, enc |-> enc]

BoolV(b) == [kind |-> "bool", b |-> b]

IntV(n) == [kind |-> "int", n |-> n]

\* decimal.Decimal and float, in units of 10^-3
Dec(units) == [kind |-> "decimal", units |-> units]

Flt(units) == [kind |-> "float", units |-> units]

\* datetime.timedelta and datetime.datetime, in seconds (datetime: since 1970)
TimeDelta(secs) == [kind |-> "timedelta", secs |-> secs]

DateTimeV(secs) == [kind |-> "datetime", secs |-> secs]

\* a Python list, compared by value
ListV(items) == [kind |-> "list", items |-> items]

\* characters outside ASCII
NonAscii == {"e1"}

IsAscii(text) == \A i \in 1..Len(text) : text[i] \notin NonAscii

\* x == y in Python 2 for the kinds above
PyEq(x, y) ==
    IF x.kind = y.kind THEN x = y
    ELSE IF {x.kind, y.kind} = {"unicode", "str"}
         THEN x.text = y.text /\ IsAscii(x.text)
    ELSE IF {x.kind, y.kind} = {"decimal", "float"}
         THEN x.units = y.units
    ELSE IF {x.kind, y.kind} = {"bool", "int"}
         THEN (IF x.kind = "bool" THEN (IF x.b THEN 1 ELSE 0) ELSE x.n)
              = (IF y.kind = "bool" THEN (IF y.b THEN 1 ELSE 0) ELSE y.n)
    ELSE FALSE

(***************************************************************************)
(* The class hierarchy.  Bases gives each class statement's base list      *)
(* (object left out); the method resolution order is Python's C3           *)
(* linearisation of it.                                                    *)
(***************************************************************************)
Bases(c) ==
    CASE c = "Visitable"         -> <<>>
      [] c = "AbstractType"      -> <<"Visitable">>
      [] c = "TypeEngine"        -> <<"AbstractType">>
      [] c = "UserDefinedType"   -> <<"TypeEngine">>
      [] c = "TypeDecorator"     -> <<"TypeEngine">>
      [] c = "Variant"           -> <<"TypeDecorator">>
      [] c = "MutableType"       -> <<>>
      [] c = "NullType"          -> <<"TypeEngine">>
      [] c = "Concatenable"      -> <<>>
      [] c = "_DateAffinity"     -> <<>>
      [] c = "String"            -> <<"Concatenable", "TypeEngine">>
      [] c = "Text"              -> <<"String">>
      [] c = "Unicode"           -> <<"String">>
      [] c = "UnicodeText"       -> <<"Text">>
      [] c = "Integer"           -> <<"_DateAffinity", "TypeEngine">>
      [] c = "SmallInteger"      -> <<"Integer">>
      [] c = "BigInteger"        -> <<"Integer">>
      [] c = "Numeric"           -> <<"_DateAffinity", "TypeEngine">>
      [] c = "Float"             -> <<"Numeric">>
      [] c = "DateTime"          -> <<"_DateAffinity", "TypeEngine">>
      [] c = "Date"              -> <<"_DateAffinity", "TypeEngine">>
      [] c = "Time"              -> <<"_DateAffinity", "TypeEngine">>
      [] c = "_Binary"           -> <<"TypeEngine">>
      [] c = "LargeBinary"       -> <<"_Binary">>
      [] c = "Binary"            -> <<"LargeBinary">>
      [] c = "SchemaEventTarget" -> <<>>
      [] c = "SchemaType"        -> <<"SchemaEventTarget">>
      [] c = "Enum"              -> <<"String", "SchemaType">>
      [] c = "PickleType"        -> <<"MutableType", "TypeDecorator">>
      [] c = "Boolean"           -> <<"TypeEngine", "SchemaType">>
      [] c = "Interval"          -> <<"_DateAffinity", "TypeDecorator">>
      [] c = "REAL"              -> <<"Float">>
      [] c = "FLOAT"             -> <<"Float">>
      [] c = "NUMERIC"           -> <<"Numeric">>
      [] c = "DECIMAL"           -> <<"Numeric">>
      [] c = "INTEGER"           -> <<"Integer">>
      [] c = "SMALLINT"          -> <<"SmallInteger">>
      [] c = "BIGINT"            -> <<"BigInteger">>
      [] c = "TIMESTAMP"         -> <<"DateTime">>
      [] c = "DATETIME"          -> <<"DateTime">>
      [] c = "DATE"              -> <<"Date">>
      [] c = "TIME"              -> <<"Time">>
      [] c = "TEXT"              -> <<"Text">>
      [] c = "CLOB"              -> <<"Text">>
      [] c = "VARCHAR"           -> <<"String">>
      [] c = "NVARCHAR"          -> <<"Unicode">>
      [] c = "CHAR"              -> <<"String">>
      [] c = "NCHAR"             -> <<"Unicode">>
      [] c = "BLOB"              -> <<"LargeBinary">>
      [] c = "BINARY"            -> <<"_Binary">>
      [] c = "VARBINARY"         -> <<"_Binary">>
      [] c = "BOOLEAN"           -> <<"Boolean">>
      \* classes outside types.py: a dialect's own DateTime with processors,
      \* a user's TypeDecorator subclass, a user's UserDefinedType subclass
      [] c = "DialectDateTime"   -> <<"DateTime">>
      [] c = "MyType"            -> <<"TypeDecorator">>
      [] c = "MyUDT"             -> <<"UserDefinedType">>
      \* a user's type whose adapt() returns the type itself
      [] c = "SelfAdapting"      -> <<"TypeEngine">>
      \* a user's TypeDecorator subclass whose copy() returns a MyType
      [] c = "BadCopyType"       -> <<"TypeDecorator">>

Classes ==
    {"Visitable", "AbstractType", "TypeEngine", "UserDefinedType", "TypeDecorator",
     "Variant", "MutableType", "NullType", "Concatenable", "_DateAffinity",
     "String", "Text", "Unicode", "UnicodeText", "Integer", "SmallInteger",
     "BigInteger", "Numeric", "Float", "DateTime", "Date", "Time", "_Binary",
     "LargeBinary", "Binary", "SchemaEventTarget", "SchemaType", "Enum",
     "PickleType", "Boolean", "Interval", "REAL", "FLOAT", "NUMERIC", "DECIMAL",
     "INTEGER", "SMALLINT", "BIGINT", "TIMESTAMP", "DATETIME", "DATE", "TIME",
     "TEXT", "CLOB", "VARCHAR", "NVARCHAR", "CHAR", "NCHAR", "BLOB", "BINARY",
     "VARBINARY", "BOOLEAN", "DialectDateTime", "MyType", "MyUDT", "SelfAdapting",
     "BadCopyType"}

InSeq(x, s) == \E i \in 1..Len(s) : s[i] = x

SelectNonEmpty(seqs) == SelectSeq(seqs, LAMBDA s : s # <<>>)

\* the head of the first list that is in the tail of no list
C3Head(seqs) ==
    LET ok(i) == \A j \in 1..Len(seqs) : ~InSeq(seqs[i][1], Tail(seqs[j]))
        first == CHOOSE i \in 1..Len(seqs) :
                     ok(i) /\ \A k \in 1..(i - 1) : ~ok(k)
    IN  seqs[first][1]

RECURSIVE C3Merge(_)
C3Merge(seqs) ==
    LET live == SelectNonEmpty(seqs)
    IN  IF live = <<>> THEN <<>>
        ELSE LET h == C3Head(live)
                 rest == [i \in 1..Len(live) |->
                             IF live[i][1] = h THEN Tail(live[i]) ELSE live[i]]
             IN  <<h>> \o C3Merge(rest)

RECURSIVE Linearize(_)
Linearize(c) ==
    LET bs == Bases(c)
    IN  <<c>> \o C3Merge([i \in 1..Len(bs) |-> Linearize(bs[i])] \o <<bs>>)

\* cls.__mro__ without object
MROTable == [c \in Classes |-> Linearize(c)]

MRO(c) == MROTable[c]

\* issubclass(c, d)
IsSubclass(c, d) == InSeq(d, MRO(c))

\* the first class of cls.__mro__ that defines a method, given the set of
\* classes whose body defines it (Python attribute lookup on a class)
ResolveMethod(definers, cls) ==
    LET mro == MRO(cls)
        i == CHOOSE k \in 1..Len(mro) :
                 mro[k] \in definers /\ \A j \in 1..(k - 1) : mro[j] \notin definers
    IN  mro[i]

(***************************************************************************)
(* Type instances as the processors see them: the class and the            *)
(* constructor arguments the processors read.                              *)
(***************************************************************************)
\* scale=None
NoScale == -1

\* TypeEngine subclasses without constructor state of interest
PlainType(cls) == [cls |-> cls]

\* String.__init__ (unicode_error stays None)
StringType(cls, cu, warn) ==
    [cls |-> cls, convert_unicode |-> cu, warn_on_bytestring |-> warn]

\* Numeric.__init__ / Float.__init__ (Float.scale is the class attribute None)
NumericType(cls, asdecimal, scale) ==
    [cls |-> cls, asdecimal |-> asdecimal, scale |-> scale]

\* PickleType.__init__: impl is the LargeBinary the decorator wraps
PickleTypeOf(impl, mutable, comparator) ==
    [cls |-> "PickleType", impl |-> impl, protocol |-> "HIGHEST_PROTOCOL",
     mutable |-> mutable, comparator |-> comparator]

\* Interval.__init__: impl is the DateTime the decorator wraps
IntervalOf(impl) == [cls |-> "Interval", impl |-> impl]

\* a user's TypeDecorator subclass: bindFn / resultFn name the bodies of its
\* process_bind_param / process_result_value, "base" when not overridden
DecoratorOf(cls, impl, bindFn, resultFn) ==
    [cls |-> cls, impl |-> impl, bindFn |-> bindFn, resultFn |-> resultFn]

(***************************************************************************)
(* Dialect configurations: the attributes the processors read.             *)
(***************************************************************************)
Dialects ==
    [convert_unicode : BOOLEAN,
     supports_unicode_binds : BOOLEAN,
     returns_unicode_strings : {"True", "False", "conditional"},
     supports_native_decimal : BOOLEAN,
     supports_native_boolean : BOOLEAN,
     encoding : {"utf-8", "latin-1"}]

(***************************************************************************)
(* Conversions used by the processors.                                     *)
(***************************************************************************)
\* codecs.getencoder(encoding)(value)[0]: ASCII text has one byte form
Encode(u, encoding) ==
    B(u.text, IF IsAscii(u.text) THEN "ascii" ELSE encoding)

\* codecs.getdecoder(encoding)(value)[0]
Decode(b, encoding) ==
    IF b.enc = "ascii" \/ b.enc = encoding THEN U(b.text)
    ELSE Raise("UnicodeDecodeError")

\* processors.to_unicode_processor_factory(encoding, errors): a unicode
\* argument is first encoded to ASCII by the decoder (Python 2)
to_unicode(encoding, value) ==
    IF value = None THEN None
    ELSE IF value.kind = "str" THEN Decode(value, encoding)
    ELSE IF value.kind = "unicode"
         THEN (IF IsAscii(value.text) THEN value ELSE Raise("UnicodeEncodeError"))
    ELSE Raise("TypeError")

\* processors.to_float
to_float(value) ==
    IF value = None THEN None
    ELSE IF value.kind \in {"decimal", "float"} THEN Flt(value.units)
    ELSE IF value.kind = "int" THEN Flt(value.n * 1000)
    ELSE Raise("TypeError")

\* digits kept by processors.to_decimal_processor_factory when scale is not given
DefaultScale == 10

\* fractional digits carried by Dec / Flt
FracDigits == 3

RECURSIVE Pow10(_)
Pow10(n) == IF n <= 0 THEN 1 ELSE 10 * Pow10(n - 1)

\* "%.<scale>f" % value, read back in units of 10^-FracDigits
RoundToScale(units, scale) ==
    IF scale >= FracDigits THEN units
    ELSE LET q == Pow10(FracDigits - scale)
         IN  ((units + (q \div 2)) \div q) * q

\* processors.to_decimal_processor_factory(decimal.Decimal, scale)
to_decimal(scale, value) ==
    IF value = None THEN None
    ELSE IF value.kind \in {"decimal", "float"}
         THEN Dec(RoundToScale(value.units, scale))
    ELSE Raise("TypeError")

\* processors.boolean_to_int
boolean_to_int(value) ==
    IF value = None THEN None
    ELSE IF value.kind = "bool" THEN IntV(IF value.b THEN 1 ELSE 0)
    ELSE IF value.kind = "int" THEN value
    ELSE Raise("TypeError")

\* processors.int_to_boolean
int_to_boolean(value) ==
    IF value = None THEN None
    ELSE IF value.kind = "int" THEN BoolV(value.n # 0)
    ELSE IF value.kind = "bool" THEN value
    ELSE BoolV(TRUE)

\* dialect.dbapi.Binary: the driver's wrapper of a byte string
DBAPIBinary(value) == [kind |-> "buffer", data |-> value]

\* processors.to_str
to_str(value) ==
    IF value = None THEN None
    ELSE IF value.kind = "buffer" THEN value.data
    ELSE IF value.kind \in {"str", "pickle"} THEN value
    ELSE Raise("TypeError")

\* pickler.dumps(value, protocol)
dumps(value, protocol) == [kind |-> "pickle", obj |-> value, protocol |-> protocol]

\* pickler.loads(value)
loads(value) ==
    IF value.kind = "pickle" THEN value.obj ELSE Raise("UnpicklingError")

\* Interval.epoch
epoch == DateTimeV(0)

\* datetime + timedelta
AddDelta(d, delta) ==
    IF d.kind = "datetime" /\ delta.kind = "timedelta"
    THEN DateTimeV(d.secs + delta.secs) ELSE Raise("TypeError")

\* datetime - datetime
SubDateTime(a, b) ==
    IF a.kind = "datetime" /\ b.kind = "datetime"
    THEN TimeDelta(a.secs - b.secs) ELSE Raise("TypeError")

\* a dialect's DateTime that stores datetimes in its own form
DialectDateTime_bind(value) ==
    IF value = None THEN None
    ELSE IF value.kind = "datetime" THEN [kind |-> "dbdatetime", secs |-> value.secs]
    ELSE Raise("TypeError")

DialectDateTime_result(value) ==
    IF value = None THEN None
    ELSE IF value.kind = "dbdatetime" THEN DateTimeV(value.secs)
    ELSE Raise("TypeError")

\* the bodies a user gives process_bind_param
process_bind_param(fn, value) ==
    CASE fn = "prefix" ->
            IF value.kind \in {"unicode", "str"}
            THEN [value EXCEPT !.text = <<"P">> \o @] ELSE Raise("TypeError")
      [] fn = "prefix_or_none" ->
            IF value = None THEN None
            ELSE IF value.kind \in {"unicode", "str"}
                 THEN [value EXCEPT !.text = <<"P">> \o @] ELSE Raise("TypeError")
      [] fn = "none_to_empty" ->
            IF value = None THEN U(<<>>) ELSE value
      [] fn = "base" -> Raise("NotImplementedError")

\* the bodies a user gives process_result_value
process_result_value(fn, value) ==
    CASE fn = "strip" ->
            IF value.kind \in {"unicode", "str"}
            THEN [value EXCEPT !.text = IF @ = <<>> THEN <<>> ELSE Tail(@)]
            ELSE Raise("TypeError")
      [] fn = "strip_or_none" ->
            IF value = None THEN None
            ELSE IF value.kind \in {"unicode", "str"}
                 THEN [value EXCEPT !.text = IF @ = <<>> THEN <<>> ELSE Tail(@)]
                 ELSE Raise("TypeError")
      [] fn = "base" -> Raise("NotImplementedError")

(***************************************************************************)
(* bind_processor / result_processor.  A processor is the closure the      *)
(* method returns: its body's name and the variables it closes over.       *)
(* NoProc is the return value None.                                        *)
(***************************************************************************)
NoProc == [p |-> "None"]

\* the classes whose body defines bind_processor / result_processor
BindDefiners ==
    {"TypeEngine", "TypeDecorator", "String", "Numeric", "_Binary", "PickleType",
     "Boolean", "Interval", "DialectDateTime"}

ResultDefiners == BindDefiners \cup {"Float"}

TypeEngine_bind_processor(self, dialect) == NoProc

TypeEngine_result_processor(self, dialect, coltype) == NoProc

String_bind_processor(self, dialect) ==
    IF self.convert_unicode # "False" \/ dialect.convert_unicode
    THEN IF dialect.supports_unicode_binds /\ self.convert_unicode # "force"
         THEN IF self.warn_on_bytestring
              THEN [p |-> "String.bind.warn"]
              ELSE NoProc
         ELSE [p |-> "String.bind.encode", encoding |-> dialect.encoding]
    ELSE NoProc

String_result_processor_noforce(self, dialect, coltype) ==
    LET wants_unicode == self.convert_unicode # "False" \/ dialect.convert_unicode
        needs_convert == wants_unicode /\ dialect.returns_unicode_strings # "True"
    IN  IF needs_convert
        THEN IF dialect.returns_unicode_strings # "False"
             THEN [p |-> "String.result.checked", encoding |-> dialect.encoding]
             ELSE [p |-> "to_unicode", encoding |-> dialect.encoding]
        ELSE NoProc

String_result_processor(self, dialect, coltype) ==
    LET wants_unicode == self.convert_unicode # "False" \/ dialect.convert_unicode
        needs_convert == wants_unicode
                         /\ (dialect.returns_unicode_strings # "True"
                             \/ self.convert_unicode = "force")
    IN  IF needs_convert
        THEN IF dialect.returns_unicode_strings # "False"
             THEN [p |-> "String.result.checked", encoding |-> dialect.encoding]
             ELSE [p |-> "to_unicode", encoding |-> dialect.encoding]
        ELSE NoProc

Numeric_bind_processor(self, dialect) ==
    IF dialect.supports_native_decimal THEN NoProc ELSE [p |-> "to_float"]

Numeric_result_processor(self, dialect, coltype) ==
    IF self.asdecimal
    THEN IF dialect.supports_native_decimal
         THEN NoProc
         ELSE IF self.scale # NoScale
              THEN [p |-> "to_decimal", scale |-> self.scale]
              ELSE [p |-> "to_decimal", scale |-> DefaultScale]
    ELSE IF dialect.supports_native_decimal THEN [p |-> "to_float"] ELSE NoProc

Float_result_processor(self, dialect, coltype) ==
    IF self.asdecimal THEN [p |-> "to_decimal", scale |-> DefaultScale] ELSE NoProc

Binary_bind_processor(self, dialect) == [p |-> "_Binary.bind"]

Binary_result_processor(self, dialect, coltype) == [p |-> "to_str"]

Boolean_bind_processor(self, dialect) ==
    IF dialect.supports_native_boolean THEN NoProc ELSE [p |-> "boolean_to_int"]

Boolean_result_processor(self, dialect, coltype) ==
    IF dialect.supports_native_boolean THEN NoProc ELSE [p |-> "int_to_boolean"]

DialectDateTime_bind_processor(self, dialect) == [p |-> "DialectDateTime.bind"]

DialectDateTime_result_processor(self, dialect, coltype) ==
    [p |-> "DialectDateTime.result"]

RECURSIVE bind_processor(_, _)
RECURSIVE result_processor(_, _, _)

PickleType_bind_processor(self, dialect) ==
    [p |-> "PickleType.bind", impl_processor |-> bind_processor(self.impl, dialect),
     protocol |-> self.protocol]

PickleType_result_processor(self, dialect, coltype) ==
    [p |-> "PickleType.result",
     impl_processor |-> result_processor(self.impl, dialect, coltype)]

Interval_bind_processor(self, dialect) ==
    [p |-> "Interval.bind", impl_processor |-> bind_processor(self.impl, dialect)]

Interval_result_processor(self, dialect, coltype) ==
    [p |-> "Interval.result",
     impl_processor |-> result_processor(self.impl, dialect, coltype)]

\* self.__class__.process_bind_param.func_code is not
\* TypeDecorator.process_bind_param.func_code
OverridesBind(self) == self.bindFn # "base"

OverridesResult(self) == self.resultFn # "base"

TypeDecorator_bind_processor(self, dialect) ==
    IF OverridesBind(self)
    THEN [p |-> "TypeDecorator.bind", process_param |-> self.bindFn,
          impl_processor |-> bind_processor(self.impl, dialect)]
    ELSE bind_processor(self.impl, dialect)

TypeDecorator_result_processor(self, dialect, coltype) ==
    IF OverridesResult(self)
    THEN [p |-> "TypeDecorator.result", process_value |-> self.resultFn,
          impl_processor |-> result_processor(self.impl, dialect, coltype)]
    ELSE result_processor(self.impl, dialect, coltype)

\* type.bind_processor(dialect), by the class that defines the method
bind_processor(self, dialect) ==
    LET m == ResolveMethod(BindDefiners, self.cls)
    IN  CASE m = "TypeEngine"      -> TypeEngine_bind_processor(self, dialect)
          [] m = "String"          -> String_bind_processor(self, dialect)
          [] m = "Numeric"         -> Numeric_bind_processor(self, dialect)
          [] m = "_Binary"         -> Binary_bind_processor(self, dialect)
          [] m = "Boolean"         -> Boolean_bind_processor(self, dialect)
          [] m = "DialectDateTime" -> DialectDateTime_bind_processor(self, dialect)
          [] m = "PickleType"      -> PickleType_bind_processor(self, dialect)
          [] m = "Interval"        -> Interval_bind_processor(self, dialect)
          [] m = "TypeDecorator"   -> TypeDecorator_bind_processor(self, dialect)

\* type.result_processor(dialect, coltype), by the class that defines the method
result_processor(self, dialect, coltype) ==
    LET m == ResolveMethod(ResultDefiners, self.cls)
    IN  CASE m = "TypeEngine"      -> TypeEngine_result_processor(self, dialect, coltype)
          [] m = "String"          -> String_result_processor(self, dialect, coltype)
          [] m = "Numeric"         -> Numeric_result_processor(self, dialect, coltype)
          [] m = "Float"           -> Float_result_processor(self, dialect, coltype)
          [] m = "_Binary"         -> Binary_result_processor(self, dialect, coltype)
          [] m = "Boolean"         -> Boolean_result_processor(self, dialect, coltype)
          [] m = "DialectDateTime" ->
                DialectDateTime_result_processor(self, dialect, coltype)
          [] m = "PickleType"      -> PickleType_result_processor(self, dialect, coltype)
          [] m = "Interval"        -> Interval_result_processor(self, dialect, coltype)
          [] m = "TypeDecorator"   ->
                TypeDecorator_result_processor(self, dialect, coltype)

RECURSIVE Apply(_, _)

\* String.bind_processor, the encoding closure
String_encode_process(proc, value) ==
    IF value.kind = "unicode" THEN Encode(value, proc.encoding) ELSE value

\* String.result_processor, the closure used when the driver may return unicode
String_checked_process(proc, value) ==
    IF value.kind = "unicode" THEN value ELSE to_unicode(proc.encoding, value)

\* _Binary.bind_processor, its closure
Binary_bind_process(proc, value) ==
    IF value # None THEN DBAPIBinary(value) ELSE None

\* PickleType.bind_processor, its two closures
PickleType_bind_process(proc, value) ==
    LET v == IF value # None THEN dumps(value, proc.protocol) ELSE value
    IN  IF proc.impl_processor # NoProc THEN Apply(proc.impl_processor, v) ELSE v

\* PickleType.result_processor, its two closures
PickleType_result_process(proc, value) ==
    LET v == IF proc.impl_processor # NoProc
             THEN Apply(proc.impl_processor, value) ELSE value
    IN  IF IsRaise(v) THEN v
        ELSE IF v = None THEN None ELSE loads(v)

Interval_bind_process_nocheck(proc, value) ==
    LET v == AddDelta(epoch, value)
    IN  IF IsRaise(v) THEN v
        ELSE IF proc.impl_processor # NoProc
             THEN Apply(proc.impl_processor, v) ELSE v

\* Interval.bind_processor, its two closures
Interval_bind_process(proc, value) ==
    LET v == IF value # None THEN AddDelta(epoch, value) ELSE value
    IN  IF IsRaise(v) THEN v
        ELSE IF proc.impl_processor # NoProc
             THEN Apply(proc.impl_processor, v) ELSE v

\* Interval.result_processor, its two closures
Interval_result_process(proc, value) ==
    LET v == IF proc.impl_processor # NoProc
             THEN Apply(proc.impl_processor, value) ELSE value
    IN  IF IsRaise(v) THEN v
        ELSE IF v = None THEN None ELSE SubDateTime(v, epoch)

TypeDecorator_bind_process_skipnone(proc, value) ==
    IF value = None THEN None
    ELSE LET v == process_bind_param(proc.process_param, value)
         IN  IF IsRaise(v) THEN v
             ELSE IF proc.impl_processor # NoProc
                  THEN Apply(proc.impl_processor, v) ELSE v

\* closures that run the impl's processor before the user's method
TypeDecorator_bind_process_implfirst(proc, value) ==
    LET v == IF proc.impl_processor # NoProc
             THEN Apply(proc.impl_processor, value) ELSE value
    IN  IF IsRaise(v) THEN v
        ELSE process_bind_param(proc.process_param, v)

\* TypeDecorator.bind_processor, its two closures
TypeDecorator_bind_process(proc, value) ==
    LET v == process_bind_param(proc.process_param, value)
    IN  IF IsRaise(v) THEN v
        ELSE IF proc.impl_processor # NoProc
             THEN Apply(proc.impl_processor, v) ELSE v

\* TypeDecorator.result_processor, its two closures
TypeDecorator_result_process(proc, value) ==
    LET v == IF proc.impl_processor # NoProc
             THEN Apply(proc.impl_processor, value) ELSE value
    IN  IF IsRaise(v) THEN v
        ELSE process_result_value(proc.process_value, v)

\* process(value) for a processor that is not None
Apply(proc, value) ==
    CASE proc.p = "String.bind.warn" -> value
      [] proc.p = "String.bind.encode" -> String_encode_process(proc, value)
      [] proc.p = "String.result.checked" -> String_checked_process(proc, value)
      [] proc.p = "to_unicode" -> to_unicode(proc.encoding, value)
      [] proc.p = "to_float" -> to_float(value)
      [] proc.p = "to_decimal" -> to_decimal(proc.scale, value)
      [] proc.p = "_Binary.bind" -> Binary_bind_process(proc, value)
      [] proc.p = "to_str" -> to_str(value)
      [] proc.p = "boolean_to_int" -> boolean_to_int(value)
      [] proc.p = "int_to_boolean" -> int_to_boolean(value)
      [] proc.p = "DialectDateTime.bind" -> DialectDateTime_bind(value)
      [] proc.p = "DialectDateTime.result" -> DialectDateTime_result(value)
      [] proc.p = "PickleType.bind" -> PickleType_bind_process(proc, value)
      [] proc.p = "PickleType.result" -> PickleType_result_process(proc, value)
      [] proc.p = "Interval.bind" -> Interval_bind_process(proc, value)
      [] proc.p = "Interval.result" -> Interval_result_process(proc, value)
      [] proc.p = "TypeDecorator.bind" -> TypeDecorator_bind_process(proc, value)
      [] proc.p = "TypeDecorator.result" -> TypeDecorator_result_process(proc, value)

\* the calls process(value) makes to the user's process_bind_param /
\* process_result_value and to the impl's processor, in the order made
CallLog(proc, value) ==
    CASE proc.p = "TypeDecorator.bind" ->
            LET v == process_bind_param(proc.process_param, value)
            IN  <<[method |-> "process_bind_param", arg |-> value]>>
                \o (IF IsRaise(v) \/ proc.impl_processor = NoProc THEN <<>>
                    ELSE <<[method |-> "impl_processor", arg |-> v]>>)
      [] proc.p = "TypeDecorator.result" ->
            LET v == IF proc.impl_processor # NoProc
                     THEN Apply(proc.impl_processor, value) ELSE value
            IN  (IF proc.impl_processor # NoProc
                 THEN <<[method |-> "impl_processor", arg |-> value]>> ELSE <<>>)
                \o (IF IsRaise(v) THEN <<>>
                    ELSE <<[method |-> "process_result_value", arg |-> v]>>)
      [] OTHER -> <<>>

\* what the caller does with a processor: None means the value is used as is
Process(proc, value) == IF proc = NoProc THEN value ELSE Apply(proc, value)

\* the caller's use of a processor, with the calls it makes
ProcessLog(proc, value) == IF proc = NoProc THEN <<>> ELSE CallLog(proc, value)

(***************************************************************************)
(* compare_values                                                          *)
(***************************************************************************)
\* the bodies a user gives PickleType(comparator=...)
Comparator(fn, x, y) ==
    CASE fn = "same_kind" -> x.kind = y.kind
      [] fn = "never" -> FALSE

RECURSIVE compare_values(_, _, _)
compare_values(self, x, y) ==
    LET m == ResolveMethod({"TypeEngine", "TypeDecorator", "MutableType", "PickleType"},
                           self.cls)
    IN  CASE m = "TypeEngine"    -> PyEq(x, y)
          [] m = "MutableType"   -> PyEq(x, y)
          [] m = "TypeDecorator" -> compare_values(self.impl, x, y)
          [] m = "PickleType"    ->
                IF self.comparator # "None"
                THEN Comparator(self.comparator, x, y) ELSE PyEq(x, y)

(***************************************************************************)
(* SpecCodec: one value is taken through a type's bind processor and the   *)
(* stored value through its result processor, for each type, dialect       *)
(* configuration and value.                                                *)
(***************************************************************************)
StringTypes ==
    {StringType(c, cu, FALSE) : c \in {"String"}, cu \in {"False", "True", "force"}}
    \cup {StringType(c, cu, TRUE) : c \in {"Unicode"}, cu \in {"True", "force"}}

NumericTypes ==
    {NumericType("Numeric", a, sc) : a \in BOOLEAN, sc \in {NoScale, 2}}
    \cup {NumericType("Float", a, NoScale) : a \in BOOLEAN}

BuiltinCodecTypes ==
    StringTypes \cup NumericTypes
    \cup {PlainType("Boolean"), PlainType("LargeBinary"), PlainType("Integer"),
          PickleTypeOf(PlainType("LargeBinary"), FALSE, "None"),
          IntervalOf(PlainType("DateTime")),
          IntervalOf(PlainType("DialectDateTime"))}

UserFnPairs ==
    {<<"base", "base">>, <<"prefix", "strip">>, <<"prefix_or_none", "strip_or_none">>,
     <<"none_to_empty", "base">>, <<"base", "strip">>}

DecoratorCodecTypes ==
    {DecoratorOf("MyType", StringType("String", "True", FALSE), f[1], f[2]) :
        f \in UserFnPairs}

CodecTypes == BuiltinCodecTypes \cup DecoratorCodecTypes

IsStringType(t) == IsSubclass(t.cls, "String")

\* the application values a type is declared for
ValidValues(t) ==
    CASE IsStringType(t) \/ t.cls = "MyType" ->
            {U(<<"a">>), U(<<"e1", "a">>), B(<<"a">>, "ascii")}
      [] IsSubclass(t.cls, "Numeric") ->
            IF t.asdecimal
            THEN {Dec(125 * Pow10(FracDigits - 2))}
                 \cup (IF t.scale = NoScale /\ t.cls = "Numeric"
                       THEN {Dec(1234 * Pow10(FracDigits - 3))} ELSE {})
            ELSE {Flt(125 * Pow10(FracDigits - 2))}
      [] t.cls = "Boolean" -> {BoolV(TRUE), BoolV(FALSE)}
      [] t.cls = "Integer" -> {IntV(7)}
      [] t.cls = "LargeBinary" -> {B(<<"a">>, "ascii"), B(<<"e1">>, "utf-8")}
      [] t.cls = "PickleType" -> {ListV(<<1, 2>>), U(<<"e1">>)}
      [] t.cls = "Interval" -> {TimeDelta(0), TimeDelta(90)}

Coltypes == {"STRING", "NUMBER"}

\* the state of the parts a specification does not exercise
CodecIdle ==
    /\ cT = PlainType("Integer") /\ cD = CHOOSE d \in Dialects : TRUE
    /\ cV = None /\ cStage = "idle" /\ cStored = None /\ cOut = None
    /\ cCalls = <<>>

VariantIdle ==
    /\ vDicts = <<>> /\ vVariants = <<>> /\ vLast = [op |-> "none"]

InferIdle ==
    /\ iLeft = None /\ iOp = "none" /\ iRight = None /\ iStage = "idle"
    /\ iResult = None /\ iAffinity = "unset" /\ iCoerced = None

PickleIdle ==
    /\ pType = None /\ pHeap = <<>> /\ pV = 0 /\ pCopy = 0 /\ pOrig = None
    /\ pStage = "idle" /\ pCmp = None /\ pMutable = None

MemoIdle ==
    /\ mHeap = <<>> /\ mDicts = <<>> /\ mMemo = <<>> /\ mThreads = <<>>
    /\ mActive = {} /\ mScope = {} /\ mColtypes = {} /\ mLast = <<>>
    /\ mFailures = 0

AdaptIdle ==
    /\ aHeap = <<>> /\ aTypeobj = None /\ aColspecs = {} /\ aStage = "idle"
    /\ aResult = 0

CodecInit ==
    /\ AdaptIdle
    /\ VariantIdle
    /\ InferIdle
    /\ MemoIdle
    /\ PickleIdle
    /\ cT \in CodecTypes
    /\ cD \in Dialects
    /\ cV \in ValidValues(cT) \cup {None}
    /\ cStage = "start"
    /\ cStored = None
    /\ cOut = None
    /\ cCalls = <<>>

\* the bind processor of cT for cD is applied to the value
CodecBind ==
    /\ cStage = "start"
    /\ LET proc == bind_processor(cT, cD)
       IN  /\ cStored' = Process(proc, cV)
           /\ cCalls' = cCalls \o ProcessLog(proc, cV)
    /\ cStage' = "bound"
    /\ UNCHANGED <<cT, cD, cV, cOut>>
    /\ UNCHANGED <<variantVars, inferVars, memoVars, pickleVars, adaptVars>>

\* the result processor of cT for cD is applied to what was stored; a bind
\* that raised has stored nothing to read back
CodecResult ==
    /\ cStage = "bound"
    /\ \E coltype \in Coltypes :
          LET proc == result_processor(cT, cD, coltype)
          IN  IF IsRaise(cStored)
              THEN cOut' = cStored /\ cCalls' = cCalls
              ELSE /\ cOut' = Process(proc, cStored)
                   /\ cCalls' = cCalls \o ProcessLog(proc, cStored)
    /\ cStage' = "done"
    /\ UNCHANGED <<cT, cD, cV, cStored>>
    /\ UNCHANGED <<variantVars, inferVars, memoVars, pickleVars, adaptVars>>

CodecNext == CodecBind \/ CodecResult

SpecCodec == CodecInit /\ [][CodecNext]_vars

(***************************************************************************)
(* Claims about the processors (SpecCodec).                                *)
(***************************************************************************)
\* the value read back equals the value bound, under the type's compare_values
RoundTripHolds == ~IsRaise(cOut) /\ compare_values(cT, cOut, cV)

\* String binds what the driver accepts and reads what the driver returns; the
\* two compose only when the driver accepts unicode exactly when it returns it
UnicodeFlagsAgree(t, d) ==
    \/ ~IsStringType(t)
    \/ (t.convert_unicode = "False" /\ ~d.convert_unicode)
    \/ t.convert_unicode = "force"
    \/ (d.supports_unicode_binds /\ d.returns_unicode_strings # "False")
    \/ (~d.supports_unicode_binds /\ d.returns_unicode_strings # "True")

NullPassClasses == {"String", "Unicode", "LargeBinary", "PickleType", "Interval"}

\* C2: for String, _Binary, PickleType and Interval, under every dialect
\* configuration, a bind or result processor applied to None returns None.
C2_NullPassThrough ==
    cT.cls \in NullPassClasses =>
        /\ (cStage # "start" /\ cV = None /\ bind_processor(cT, cD) # NoProc)
              => cStored = None
        /\ (cStage = "done" /\ cStored = None
              /\ \E c \in Coltypes : result_processor(cT, cD, c) # NoProc)
              => cOut = None

C2_Witness ==
    /\ cStage = "done" /\ cV = None /\ cStored = None /\ cOut = None
    /\ cT.cls = "Interval" /\ cT.impl.cls = "DialectDateTime"
    /\ bind_processor(cT, cD).p = "Interval.bind"

\* C3 as stated: the processor a TypeDecorator builds around an overridden
\* process_bind_param / process_result_value returns None for None without
\* calling the user's method or the impl's processor.
C3_TransformSkippedOnNone ==
    cT.cls = "MyType" =>
        /\ (cStage # "start" /\ cV = None /\ OverridesBind(cT))
              => (cStored = None /\ cCalls = <<>>)
        /\ (cStage = "done" /\ cV = None /\ cStored = None /\ OverridesResult(cT))
              => (cOut = None /\ cCalls = <<>>)

\* C3 amended: the transform is invoked on None.  The bind processor calls the
\* user's process_bind_param with None and returns its result passed through
\* the impl's processor (if any); the result processor calls the user's
\* process_result_value with what the impl's processor (if any) returns for
\* None, and returns its result.  None comes back only if the user's method
\* returns None.
C3_TransformRunsOnNone ==
    cT.cls = "MyType" =>
        /\ (cStage # "start" /\ cV = None /\ OverridesBind(cT))
              => /\ Len(cCalls) >= 1
                 /\ cCalls[1] = [method |-> "process_bind_param", arg |-> None]
                 /\ LET r == process_bind_param(cT.bindFn, None)
                    IN  cStored = IF IsRaise(r) THEN r
                                  ELSE Process(bind_processor(cT.impl, cD), r)
        /\ (cStage = "done" /\ cStored = None /\ OverridesResult(cT))
              => /\ Len(cCalls) >= 1
                 /\ cCalls[Len(cCalls)] =
                        [method |-> "process_result_value", arg |-> None]
                 /\ cOut = process_result_value(cT.resultFn, None)

C3_Witness ==
    /\ cStage = "bound" /\ cV = None
    /\ cT.cls = "MyType" /\ cT.bindFn = "none_to_empty"
    /\ cCalls[1] = [method |-> "process_bind_param", arg |-> None]
    /\ cStored # None /\ ~IsRaise(cStored)

\* C21: a TypeDecorator that overrides process_bind_param binds a value by
\* calling the user's method first and the impl's bind processor, if there is
\* one, on what it returned; one that overrides process_result_value reads a
\* value by running the impl's result processor first, if there is one, and
\* the user's method on what it returned.  Without the override the
\* decorator's processor is the impl's processor itself, None included.
C21_ProcessingOrder ==
    cT.cls = "MyType" =>
        /\ cStage # "start" =>
              LET ib == bind_processor(cT.impl, cD)
              IN  IF OverridesBind(cT)
                  THEN LET u == process_bind_param(cT.bindFn, cV)
                       IN  /\ Len(cCalls) >= 1
                           /\ cCalls[1] = [method |-> "process_bind_param", arg |-> cV]
                           /\ IF IsRaise(u) THEN cStored = u
                              ELSE IF ib # NoProc
                              THEN /\ Len(cCalls) >= 2
                                   /\ cCalls[2] = [method |-> "impl_processor", arg |-> u]
                                   /\ cStored = Apply(ib, u)
                              ELSE /\ cStored = u
                                   /\ cStage = "bound" => Len(cCalls) = 1
                  ELSE /\ bind_processor(cT, cD) = ib
                       /\ cStored = (IF ib = NoProc THEN cV ELSE Apply(ib, cV))
                       /\ cStage = "bound" => cCalls = <<>>
        /\ (cStage = "done" /\ ~IsRaise(cStored)) =>
              \E coltype \in Coltypes :
                 LET ir == result_processor(cT.impl, cD, coltype)
                     n == Len(cCalls)
                 IN  IF OverridesResult(cT)
                     THEN LET v == IF ir = NoProc THEN cStored ELSE Apply(ir, cStored)
                          IN  IF IsRaise(v) THEN cOut = v
                              ELSE /\ n >= 1
                                   /\ cCalls[n] = [method |-> "process_result_value",
                                                   arg |-> v]
                                   /\ cOut = process_result_value(cT.resultFn, v)
                                   /\ ir # NoProc =>
                                         /\ n >= 2
                                         /\ cCalls[n - 1] = [method |-> "impl_processor",
                                                             arg |-> cStored]
                     ELSE /\ result_processor(cT, cD, coltype) = ir
                          /\ cOut = (IF ir = NoProc THEN cStored ELSE Apply(ir, cStored))

\* both overridden over an impl with both processors: four calls, the user's
\* method first on the way in and last on the way out; None bound through
\* none_to_empty shows the order in the stored value
C21_Witness ==
    /\ cStage = "done"
    /\ cT.cls = "MyType" /\ OverridesBind(cT) /\ OverridesResult(cT)
    /\ Len(cCalls) = 4
    /\ cCalls[1].method = "process_bind_param"
    /\ cCalls[2].method = "impl_processor"
    /\ cCalls[3].method = "impl_processor"
    /\ cCalls[4].method = "process_result_value"
    /\ cStored.kind = "str" /\ cOut.kind = "unicode"

(***************************************************************************)
(* SpecVariant: Variant objects built by with_variant.  A Variant holds    *)
(* its base type (impl) and a reference to its mapping dict; dicts and     *)
(* Variants are heap objects named by their allocation index.              *)
(***************************************************************************)
MaxVariants == 3

DialectNames == {"mysql", "postgresql", "sqlite"}

VariantBaseTypes == {StringType("String", "False", FALSE)}

VariantOverrideTypes == {StringType("Unicode", "True", TRUE), PlainType("LargeBinary")}

\* a dict with the single item key: value
DictOf(key, value) == [k \in {key} |-> value]

\* d[key] = value on a dict d
DictSet(d, key, value) ==
    [k \in DOMAIN d \cup {key} |-> IF k = key THEN value ELSE d[k]]

\* Variant.__init__(base, mapping): the new object keeps the dict it is given
Variant_init(base, mapping) == [impl |-> base, mapping |-> mapping]

CallRecord(op, recv, type_, name, exc, ret) ==
    [op |-> op, recv |-> recv, type_ |-> type_, name |-> name, exc |-> exc,
     ret |-> ret, preDicts |-> vDicts, preVariants |-> vVariants]

VariantInit ==
    /\ AdaptIdle
    /\ CodecIdle
    /\ InferIdle
    /\ MemoIdle
    /\ PickleIdle
    /\ vDicts = <<>>
    /\ vVariants = <<>>
    /\ vLast = [op |-> "none"]

\* TypeEngine.with_variant on a type that is not a Variant
TypeEngine_with_variant(base, type_, dialect_name) ==
    /\ Len(vVariants) < MaxVariants
    /\ vDicts' = Append(vDicts, DictOf(dialect_name, type_))
    /\ vVariants' = Append(vVariants, Variant_init(base, Len(vDicts) + 1))
    /\ vLast' = CallRecord("TypeEngine.with_variant", 0, type_, dialect_name, "None",
                           Len(vVariants) + 1)
    /\ UNCHANGED <<codecVars, inferVars, memoVars, pickleVars, adaptVars>>

Variant_with_variant_overwrite(v, type_, dialect_name) ==
    /\ v \in 1..Len(vVariants)
    /\ Len(vVariants) < MaxVariants
    /\ vDicts' = Append(vDicts, DictSet(vDicts[vVariants[v].mapping], dialect_name, type_))
    /\ vVariants' = Append(vVariants, Variant_init(vVariants[v].impl, Len(vDicts) + 1))
    /\ vLast' = CallRecord("Variant.with_variant", v, type_, dialect_name, "None",
                           Len(vVariants) + 1)
    /\ UNCHANGED <<codecVars, inferVars, memoVars, pickleVars, adaptVars>>

\* a with_variant that adds the item to the receiver's own dict and hands
\* that dict to the new Variant
Variant_with_variant_shared(v, type_, dialect_name) ==
    /\ v \in 1..Len(vVariants)
    /\ IF dialect_name \in DOMAIN vDicts[vVariants[v].mapping]
       THEN /\ vLast' = CallRecord("Variant.with_variant", v, type_, dialect_name,
                                   "ArgumentError", 0)
            /\ UNCHANGED <<vDicts, vVariants>>
       ELSE /\ Len(vVariants) < MaxVariants
            /\ vDicts' = [vDicts EXCEPT ![vVariants[v].mapping] =
                                            DictSet(@, dialect_name, type_)]
            /\ vVariants' = Append(vVariants,
                                   Variant_init(vVariants[v].impl, vVariants[v].mapping))
            /\ vLast' = CallRecord("Variant.with_variant", v, type_, dialect_name,
                                   "None", Len(vVariants) + 1)
    /\ UNCHANGED <<codecVars, inferVars, memoVars, pickleVars, adaptVars>>

\* Variant.with_variant on the Variant v
Variant_with_variant(v, type_, dialect_name) ==
    /\ v \in 1..Len(vVariants)
    /\ IF dialect_name \in DOMAIN vDicts[vVariants[v].mapping]
       THEN /\ vLast' = CallRecord("Variant.with_variant", v, type_, dialect_name,
                                   "ArgumentError", 0)
            /\ UNCHANGED <<vDicts, vVariants>>
       ELSE /\ Len(vVariants) < MaxVariants
            /\ vDicts' = Append(vDicts, DictSet(vDicts[vVariants[v].mapping],
                                                 dialect_name, type_))
            /\ vVariants' = Append(vVariants,
                                   Variant_init(vVariants[v].impl, Len(vDicts) + 1))
            /\ vLast' = CallRecord("Variant.with_variant", v, type_, dialect_name,
                                   "None", Len(vVariants) + 1)
    /\ UNCHANGED <<codecVars, inferVars, memoVars, pickleVars, adaptVars>>

VariantNext ==
    \/ \E base \in VariantBaseTypes, type_ \in VariantOverrideTypes,
          name \in DialectNames : TypeEngine_with_variant(base, type_, name)
    \/ \E v \in 1..MaxVariants, type_ \in VariantOverrideTypes,
          name \in DialectNames : Variant_with_variant(v, type_, name)

SpecVariant == VariantInit /\ [][VariantNext]_vars

\* the last call was Variant.with_variant with a name the receiver already maps
DuplicateCall ==
    /\ vLast.op = "Variant.with_variant"
    /\ vLast.name \in DOMAIN vLast.preDicts[vLast.preVariants[vLast.recv].mapping]

\* C4: Variant.with_variant with a dialect name already in the receiver's
\* mapping raises ArgumentError, returns no new Variant and leaves every
\* Variant's mapping and base type as they were.
C4_DuplicateKeyRejected ==
    DuplicateCall =>
        /\ vLast.exc = "ArgumentError"
        /\ vLast.ret = 0
        /\ vVariants = vLast.preVariants
        /\ vDicts = vLast.preDicts

C4_Witness ==
    /\ DuplicateCall
    /\ vLast.exc = "ArgumentError"
    /\ Len(vVariants) = 2
    /\ vLast.recv = 2
    /\ vLast.type_ # vDicts[vVariants[2].mapping][vLast.name]

\* the last call was Variant.with_variant with a name the receiver did not map
FreshNameCall ==
    /\ vLast.op = "Variant.with_variant"
    /\ vLast.name \notin DOMAIN vLast.preDicts[vLast.preVariants[vLast.recv].mapping]

\* the keys of the Variant v's mapping
Keys(v) == DOMAIN vDicts[vVariants[v].mapping]

\* C20: Variant.with_variant(type_, name) with a name the receiver does not
\* map returns a new Variant with the receiver's base type and a new mapping
\* dict holding the receiver's items plus name -> type_; the receiver and
\* every other Variant and dict stay as they were, and no two Variants ever
\* hold the same dict, so a Variant's keys grow only along its own chain.
C20_WithVariantFrame ==
    /\ \A v, w \in 1..Len(vVariants) :
           v # w => vVariants[v].mapping # vVariants[w].mapping
    /\ FreshNameCall =>
           LET recv == vLast.preVariants[vLast.recv]
               old == vLast.preDicts[recv.mapping]
           IN  /\ vLast.exc = "None"
               /\ vLast.ret = Len(vLast.preVariants) + 1
               /\ vVariants = Append(vLast.preVariants,
                                     Variant_init(recv.impl, Len(vLast.preDicts) + 1))
               /\ vDicts = Append(vLast.preDicts, DictSet(old, vLast.name, vLast.type_))
               /\ Keys(vLast.ret) = DOMAIN old \cup {vLast.name}
               /\ Keys(vLast.recv) = DOMAIN old
    /\ vLast.op = "TypeEngine.with_variant" =>
           /\ vVariants = Append(vLast.preVariants,
                                 Variant_init(vVariants[vLast.ret].impl,
                                              Len(vLast.preDicts) + 1))
           /\ vDicts = Append(vLast.preDicts, DictOf(vLast.name, vLast.type_))

\* a chain of three: the third Variant maps three names, the second, its
\* receiver, still two, and the first still one
C20_Witness ==
    /\ FreshNameCall
    /\ vLast.exc = "None"
    /\ vLast.recv = 2 /\ vLast.ret = 3
    /\ Cardinality(Keys(3)) = 3
    /\ Cardinality(Keys(2)) = 2
    /\ Cardinality(Keys(1)) = 1
    /\ Keys(1) \subseteq Keys(2)

(***************************************************************************)
(* Expression type inference: _type_affinity and _adapt_expression.        *)
(* A type instance carries an id (its identity); a result is either an     *)
(* instance or a class taken from an adaptation table.                     *)
(***************************************************************************)
\* the module-level NullType instance NULLTYPE
NULLTYPE == [cls |-> "NullType", id |-> 0]

\* a class object, as the adaptation tables hold them
ClassRef(c) == [ref |-> "class", cls |-> c]

\* the value None of _type_affinity for a bare TypeEngine
NoAffinity == "None"

RECURSIVE AffinityWalk(_, _, _, _)
AffinityWalk(self, mro, i, typ) ==
    IF i > Len(mro) THEN self.cls
    ELSE IF mro[i] = "TypeEngine" \/ mro[i] = "UserDefinedType" THEN typ
    ELSE IF IsSubclass(mro[i], "TypeEngine")
         THEN AffinityWalk(self, mro, i + 1, mro[i])
    ELSE AffinityWalk(self, mro, i + 1, typ)

\* a variant that reports the instance's own class
TypeEngine_type_affinity_ownclass(self) == self.cls

TypeEngine_type_affinity(self) == AffinityWalk(self, MRO(self.cls), 1, NoAffinity)

RECURSIVE type_affinity(_)

TypeDecorator_type_affinity(self) == type_affinity(self.impl)

\* a variant in which Interval reports the affinity of its impl, as any other
\* TypeDecorator does
Interval_type_affinity_ofimpl(self) == type_affinity(self.impl)

Interval_type_affinity(self) == "Interval"

\* type._type_affinity, by the class that defines the property
type_affinity(self) ==
    LET m == ResolveMethod({"TypeEngine", "TypeDecorator", "Interval"}, self.cls)
    IN  CASE m = "TypeEngine"    -> TypeEngine_type_affinity(self)
          [] m = "TypeDecorator" -> TypeDecorator_type_affinity(self)
          [] m = "Interval"      -> Interval_type_affinity(self)

\* operators.is_commutative
Commutative == {"eq", "ne", "add", "mul"}

Operators == {"add", "sub", "mul", "div", "truediv", "eq"}

\* the _expression_adaptations tables, as <<operator, affinity, result class>>
\* a variant of Integer's table whose add entry for Numeric stays Integer
Integer_expression_adaptations_addint ==
    {<<"add", "Date", "Date">>, <<"add", "Integer", "Integer">>,
     <<"add", "Numeric", "Integer">>,
     <<"mul", "Interval", "Interval">>, <<"mul", "Integer", "Integer">>,
     <<"mul", "Numeric", "Numeric">>,
     <<"div", "Integer", "Integer">>, <<"div", "Numeric", "Numeric">>,
     <<"truediv", "Integer", "Integer">>, <<"truediv", "Numeric", "Numeric">>,
     <<"sub", "Integer", "Integer">>, <<"sub", "Numeric", "Numeric">>}

Integer_expression_adaptations ==
    {<<"add", "Date", "Date">>, <<"add", "Integer", "Integer">>,
     <<"add", "Numeric", "Numeric">>,
     <<"mul", "Interval", "Interval">>, <<"mul", "Integer", "Integer">>,
     <<"mul", "Numeric", "Numeric">>,
     <<"div", "Integer", "Integer">>, <<"div", "Numeric", "Numeric">>,
     <<"truediv", "Integer", "Integer">>, <<"truediv", "Numeric", "Numeric">>,
     <<"sub", "Integer", "Integer">>, <<"sub", "Numeric", "Numeric">>}

Numeric_expression_adaptations ==
    {<<"mul", "Interval", "Interval">>, <<"mul", "Numeric", "Numeric">>,
     <<"mul", "Integer", "Numeric">>,
     <<"div", "Numeric", "Numeric">>, <<"div", "Integer", "Numeric">>,
     <<"truediv", "Numeric", "Numeric">>, <<"truediv", "Integer", "Numeric">>,
     <<"add", "Numeric", "Numeric">>, <<"add", "Integer", "Numeric">>,
     <<"sub", "Numeric", "Numeric">>, <<"sub", "Integer", "Numeric">>}

Float_expression_adaptations ==
    {<<"mul", "Interval", "Interval">>, <<"mul", "Numeric", "Float">>,
     <<"div", "Numeric", "Float">>,
     <<"truediv", "Numeric", "Float">>,
     <<"add", "Numeric", "Float">>,
     <<"sub", "Numeric", "Float">>}

DateTime_expression_adaptations ==
    {<<"add", "Interval", "DateTime">>,
     <<"sub", "Interval", "DateTime">>, <<"sub", "DateTime", "Interval">>}

Date_expression_adaptations ==
    {<<"add", "Integer", "Date">>, <<"add", "Interval", "DateTime">>,
     <<"add", "Time", "DateTime">>,
     <<"sub", "Integer", "Date">>, <<"sub", "Date", "Integer">>,
     <<"sub", "Interval", "DateTime">>, <<"sub", "DateTime", "Interval">>}

Time_expression_adaptations ==
    {<<"add", "Date", "DateTime">>, <<"add", "Interval", "Time">>,
     <<"sub", "Time", "Interval">>, <<"sub", "Interval", "Time">>}

Interval_expression_adaptations ==
    {<<"add", "Date", "DateTime">>, <<"add", "Interval", "Interval">>,
     <<"add", "DateTime", "DateTime">>, <<"add", "Time", "Time">>,
     <<"sub", "Interval", "Interval">>,
     <<"mul", "Numeric", "Interval">>,
     <<"truediv", "Numeric", "Interval">>,
     <<"div", "Numeric", "Interval">>}

TableDefiners == {"Integer", "Numeric", "Float", "DateTime", "Date", "Time", "Interval"}

\* self._expression_adaptations, by the class that defines the property
expression_adaptations(self) ==
    LET m == ResolveMethod(TableDefiners, self.cls)
    IN  CASE m = "Integer"  -> Integer_expression_adaptations
          [] m = "Numeric"  -> Numeric_expression_adaptations
          [] m = "Float"    -> Float_expression_adaptations
          [] m = "DateTime" -> DateTime_expression_adaptations
          [] m = "Date"     -> Date_expression_adaptations
          [] m = "Time"     -> Time_expression_adaptations
          [] m = "Interval" -> Interval_expression_adaptations

\* table.get(op, _blank_dict).get(affinity, NULLTYPE)
TableGet(table, op, affinity) ==
    IF \E e \in table : e[1] = op /\ e[2] = affinity
    THEN ClassRef((CHOOSE e \in table : e[1] = op /\ e[2] = affinity)[3])
    ELSE NULLTYPE

Inferred(op, type) == [kind |-> "inferred", op |-> op, type |-> type]

TypeEngine_adapt_expression(self, op, othertype) == Inferred(op, self)

\* UserDefinedType.adapt_operator returns op unless a subclass overrides it
UserDefinedType_adapt_expression(self, op, othertype) == Inferred(op, self)

Concatenable_adapt_expression(self, op, othertype) ==
    LET aff == type_affinity(othertype)
    IN  IF op = "add" /\ aff = NoAffinity THEN Raise("TypeError")
        ELSE IF op = "add"
                /\ (IsSubclass(aff, "Concatenable") \/ IsSubclass(aff, "NullType"))
             THEN Inferred("concat_op", self)
        ELSE Inferred(op, self)

\* a variant that looks the table up by the other type's class
DateAffinity_adapt_expression_byclass(self, op, othertype) ==
    Inferred(op, TableGet(expression_adaptations(self), op, othertype.cls))

DateAffinity_adapt_expression(self, op, othertype) ==
    Inferred(op, TableGet(expression_adaptations(self), op, type_affinity(othertype)))

RECURSIVE adapt_expression(_, _, _)

\* a variant that never hands the inference to the other operand
NullType_adapt_expression_noswap(self, op, othertype) == Inferred(op, self)

NullType_adapt_expression(self, op, othertype) ==
    IF IsSubclass(othertype.cls, "NullType") \/ op \notin Commutative
    THEN Inferred(op, self)
    ELSE adapt_expression(othertype, op, self)

\* typ is self.impl
IsObject(typ, obj) == "id" \in DOMAIN typ /\ typ.id = obj.id

\* a variant that returns what the impl inferred as it is
TypeDecorator_adapt_expression_asimpl(self, op, othertype) ==
    adapt_expression(self.impl, op, othertype)

TypeDecorator_adapt_expression(self, op, othertype) ==
    LET r == adapt_expression(self.impl, op, othertype)
    IN  IF IsRaise(r) THEN r
        ELSE IF IsObject(r.type, self.impl) THEN Inferred(r.op, self)
        ELSE Inferred(r.op, r.type)

\* self._adapt_expression(op, othertype), by the class that defines the method
adapt_expression(self, op, othertype) ==
    LET m == ResolveMethod({"TypeEngine", "UserDefinedType", "TypeDecorator", "NullType",
                            "Concatenable", "_DateAffinity"}, self.cls)
    IN  CASE m = "TypeEngine"      -> TypeEngine_adapt_expression(self, op, othertype)
          [] m = "UserDefinedType" ->
                UserDefinedType_adapt_expression(self, op, othertype)
          [] m = "TypeDecorator"   -> TypeDecorator_adapt_expression(self, op, othertype)
          [] m = "NullType"        -> NullType_adapt_expression(self, op, othertype)
          [] m = "Concatenable"    -> Concatenable_adapt_expression(self, op, othertype)
          [] m = "_DateAffinity"   -> DateAffinity_adapt_expression(self, op, othertype)

(***************************************************************************)
(* _coerce_compared_value: the type given to a plain Python value that is  *)
(* compared with a column of some type.                                    *)
(***************************************************************************)
\* type(value)
PyType(value) == IF value.kind = "none" THEN "NoneType" ELSE value.kind

\* isinstance(value, basestring)
IsBasestring(value) == PyType(value) \in {"str", "unicode"}

\* the instances _type_map holds, each an object of its own
MapInstance(cls, n) == [cls |-> cls, id |-> 10 + n]

BOOLEANTYPE == MapInstance("Boolean", 5)

type_map ==
    [k \in {"str", "unicode", "int", "float", "bool", "decimal", "date", "datetime",
            "time", "timedelta", "NoneType"} |->
        CASE k = "str"       -> MapInstance("String", 1)
          [] k = "unicode"   -> MapInstance("Unicode", 2)
          [] k = "int"       -> MapInstance("Integer", 3)
          [] k = "float"     -> MapInstance("Numeric", 4)
          [] k = "bool"      -> BOOLEANTYPE
          [] k = "decimal"   -> MapInstance("Numeric", 6)
          [] k = "date"      -> MapInstance("Date", 7)
          [] k = "datetime"  -> MapInstance("DateTime", 8)
          [] k = "time"      -> MapInstance("Time", 9)
          [] k = "timedelta" -> [cls |-> "Interval", id |-> 20,
                                 impl |-> [cls |-> "DateTime", id |-> 21]]
          [] k = "NoneType"  -> NULLTYPE]

\* _type_map.get(key, NULLTYPE)
type_map_get(key) == IF key \in DOMAIN type_map THEN type_map[key] ELSE NULLTYPE

\* a coercion that hands out the mapped type whatever its affinity
TypeEngine_coerce_compared_value_anyaffinity(self, op, value) ==
    LET coerced_type == type_map_get(PyType(value))
    IN  IF coerced_type = NULLTYPE THEN self ELSE coerced_type

TypeEngine_coerce_compared_value(self, op, value) ==
    LET coerced_type == type_map_get(PyType(value))
    IN  IF coerced_type = NULLTYPE \/ type_affinity(coerced_type) = type_affinity(self)
        THEN self
        ELSE coerced_type

\* TypeDecorator.coerce_compared_value, the public method
TypeDecorator_public_coerce_compared_value(self, op, value) == self

TypeDecorator_coerce_compared_value(self, op, value) ==
    TypeDecorator_public_coerce_compared_value(self, op, value)

\* super(_Binary, self) is TypeEngine for every binary class
Binary_coerce_compared_value(self, op, value) ==
    IF IsBasestring(value) THEN self
    ELSE TypeEngine_coerce_compared_value(self, op, value)

RECURSIVE coerce_compared_value(_, _, _)

Interval_coerce_compared_value(self, op, value) ==
    coerce_compared_value(self.impl, op, value)

\* type._coerce_compared_value(op, value), by the class that defines the method
coerce_compared_value(self, op, value) ==
    LET m == ResolveMethod({"TypeEngine", "TypeDecorator", "_Binary", "Interval"},
                           self.cls)
    IN  CASE m = "TypeEngine"    -> TypeEngine_coerce_compared_value(self, op, value)
          [] m = "TypeDecorator" -> TypeDecorator_coerce_compared_value(self, op, value)
          [] m = "_Binary"       -> Binary_coerce_compared_value(self, op, value)
          [] m = "Interval"      -> Interval_coerce_compared_value(self, op, value)

\* the plain values compared with a column; a list has no entry in _type_map
CoerceValues ==
    {None, U(<<"a">>), B(<<"a">>, "ascii"), IntV(7), BoolV(TRUE), Flt(1500),
     Dec(1500), TimeDelta(90), DateTimeV(0), ListV(<<1, 2>>)}

(***************************************************************************)
(* SpecInfer: left._adapt_expression(op, right) for each pair of types and *)
(* each operator.                                                          *)
(***************************************************************************)
\* the classes of types.py that are instantiated as column types
ConcreteClasses ==
    {"String", "Text", "Unicode", "UnicodeText", "Integer", "SmallInteger",
     "BigInteger", "Numeric", "Float", "DateTime", "Date", "Time", "LargeBinary",
     "Enum", "Boolean", "REAL", "FLOAT", "NUMERIC", "DECIMAL", "INTEGER", "SMALLINT",
     "BIGINT", "TIMESTAMP", "DATETIME", "DATE", "TIME", "TEXT", "CLOB", "VARCHAR",
     "NVARCHAR", "CHAR", "NCHAR", "BLOB", "BINARY", "VARBINARY", "BOOLEAN",
     "TypeEngine", "MyUDT"}

\* the instances an operand can be: id is the operand's identity, implId its
\* impl's (for a TypeDecorator)
OperandTypes(id, implId) ==
    {[cls |-> c, id |-> id] : c \in ConcreteClasses}
    \cup {[cls |-> "NullType", id |-> id], NULLTYPE}
    \cup {[cls |-> c, id |-> id, impl |-> [cls |-> i, id |-> implId]] :
             c \in {"MyType"}, i \in {"Integer", "String", "NullType"}}
    \cup {[cls |-> "PickleType", id |-> id, impl |-> [cls |-> "LargeBinary", id |-> implId]],
          [cls |-> "Interval", id |-> id, impl |-> [cls |-> "DateTime", id |-> implId]]}

InferInit ==
    /\ AdaptIdle
    /\ CodecIdle
    /\ VariantIdle
    /\ MemoIdle
    /\ PickleIdle
    /\ iLeft \in OperandTypes(1, 2)
    /\ iRight \in OperandTypes(3, 4)
    /\ iOp \in Operators
    /\ iStage = "start"
    /\ iResult = None
    /\ iAffinity = "unset"
    /\ iCoerced = None

\* left._adapt_expression(op, right)
AdaptExpression ==
    /\ iStage = "start"
    /\ iResult' = adapt_expression(iLeft, iOp, iRight)
    /\ iStage' = "done"
    /\ UNCHANGED <<iLeft, iOp, iRight, iAffinity, iCoerced>>
    /\ UNCHANGED <<codecVars, variantVars, memoVars, pickleVars, adaptVars>>

\* left._type_affinity
TypeAffinity ==
    /\ iStage = "start"
    /\ iAffinity' = type_affinity(iLeft)
    /\ iStage' = "affinity"
    /\ UNCHANGED <<iLeft, iOp, iRight, iResult, iCoerced>>
    /\ UNCHANGED <<codecVars, variantVars, memoVars, pickleVars, adaptVars>>

\* left._coerce_compared_value(op, value) for a plain Python value
CoerceComparedValue ==
    /\ iStage = "start"
    /\ \E value \in CoerceValues :
          iCoerced' = [value |-> value,
                       type |-> coerce_compared_value(iLeft, iOp, value)]
    /\ iStage' = "coerced"
    /\ UNCHANGED <<iLeft, iOp, iRight, iResult, iAffinity>>
    /\ UNCHANGED <<codecVars, variantVars, memoVars, pickleVars, adaptVars>>

InferNext == AdaptExpression \/ TypeAffinity \/ CoerceComparedValue

SpecInfer == InferInit /\ [][InferNext]_vars

\* the type declares an adaptation table
HasTable(t) == \E k \in 1..Len(MRO(t.cls)) : MRO(t.cls)[k] \in TableDefiners

\* the type's table has an entry for the operator and the other type's affinity
HasEntry(t, op, other) ==
    /\ HasTable(t)
    /\ \E e \in expression_adaptations(t) : e[1] = op /\ e[2] = type_affinity(other)

\* C5: for a commutative operator and types A, B where A's table has no entry
\* for (op, affinity(B)) but B's has one for (op, affinity(A)), the type
\* inferred for A op B equals the type inferred for B op A.
C5_CommutativeSymmetry ==
    (/\ iStage = "done"
     /\ iOp \in {"add", "mul"}
     /\ HasTable(iLeft) /\ ~HasEntry(iLeft, iOp, iRight)
     /\ HasEntry(iRight, iOp, iLeft))
        => iResult.type = adapt_expression(iRight, iOp, iLeft).type

(***************************************************************************)
(* Dialect resolution: dialect_impl, _dialect_info and the cached          *)
(* processors, run by threads over shared type objects and memo dicts.     *)
(***************************************************************************)
MaxCalls == 2
MaxConcCalls == 1
MaxFailures == 1

\* a Variant as an object: base and the mapped types are identities; it
\* overrides neither process_bind_param nor process_result_value
VariantObject(base, mapping) ==
    [cls |-> "Variant", impl |-> base, mapping |-> mapping,
     bindFn |-> "base", resultFn |-> "base"]

\* the type objects that exist before any resolution; a TypeDecorator's impl
\* is the identity of another object
MemoHeap0 ==
    <<StringType("String", "True", FALSE),
      PlainType("DateTime"),
      DecoratorOf("MyType", 4, "prefix", "strip"),
      StringType("String", "False", FALSE),
      PlainType("SelfAdapting"),
      \* String().with_variant(Unicode(convert_unicode=True), "postgresql")
      VariantObject(7, DictOf("postgresql", 8)),
      StringType("String", "False", FALSE),
      StringType("Unicode", "True", TRUE),
      DecoratorOf("BadCopyType", 10, "base", "base"),
      StringType("String", "True", FALSE)>>

\* the objects callers hold and resolve
MemoRoots == {1, 2, 3, 5}

\* two dialects: colspecs as <<generic class, implementation class>>
MemoDialects ==
    <<[name |-> "postgresql",
       convert_unicode |-> FALSE, supports_unicode_binds |-> FALSE,
       returns_unicode_strings |-> "False", supports_native_decimal |-> FALSE,
       supports_native_boolean |-> FALSE, encoding |-> "utf-8",
       colspecs |-> {<<"DateTime", "DialectDateTime">>}],
      [name |-> "sqlite",
       convert_unicode |-> FALSE, supports_unicode_binds |-> TRUE,
       returns_unicode_strings |-> "True", supports_native_decimal |-> TRUE,
       supports_native_boolean |-> TRUE, encoding |-> "utf-8",
       colspecs |-> {}]>>

DialectIds == DOMAIN MemoDialects

MemoColtypes == {"STRING"}

\* the type object as a value: impl references replaced by the objects
RECURSIVE Deref(_, _)
Deref(heap, id) ==
    IF "impl" \in DOMAIN heap[id]
    THEN [heap[id] EXCEPT !.impl = Deref(heap, heap[id].impl)]
    ELSE heap[id]

\* the result of a call that may allocate: the heap after it and the object
Allocated(heap, obj) == [heap |-> Append(heap, obj), id |-> Len(heap) + 1]

Existing(heap, id) == [heap |-> heap, id |-> id]

\* util.constructor_copy(self, cls): a new object of class cls built from
\* self's constructor arguments
TypeEngine_adapt(heap, self, cls) == Allocated(heap, [heap[self] EXCEPT !.cls = cls])

SelfAdapting_adapt(heap, self, cls) == Existing(heap, self)

adapt(heap, self, cls) ==
    LET m == ResolveMethod({"TypeEngine", "SelfAdapting"}, heap[self].cls)
    IN  CASE m = "TypeEngine"   -> TypeEngine_adapt(heap, self, cls)
          [] m = "SelfAdapting" -> SelfAdapting_adapt(heap, self, cls)

\* a walk that keeps the last class of the MRO that colspecs maps
RECURSIVE FirstColspec_last(_, _, _)
FirstColspec_last(mro, i, colspecs) ==
    IF i > Len(mro) THEN "none"
    ELSE LET rest == FirstColspec_last(mro, i + 1, colspecs)
         IN  IF rest # "none" THEN rest
             ELSE IF \E e \in colspecs : e[1] = mro[i]
                  THEN (CHOOSE e \in colspecs : e[1] = mro[i])[2]
             ELSE "none"

\* the first class of typeobj's MRO (object excluded) that colspecs maps
RECURSIVE FirstColspec(_, _, _)
FirstColspec(mro, i, colspecs) ==
    IF i > Len(mro) THEN "none"
    ELSE IF \E e \in colspecs : e[1] = mro[i]
         THEN (CHOOSE e \in colspecs : e[1] = mro[i])[2]
    ELSE FirstColspec(mro, i + 1, colspecs)

adapt_type(heap, typeobj, colspecs) ==
    LET impltype == FirstColspec(MRO(heap[typeobj].cls), 1, colspecs)
    IN  IF impltype = "none" THEN Existing(heap, typeobj)
        ELSE IF IsSubclass(heap[typeobj].cls, impltype) THEN Existing(heap, typeobj)
        ELSE adapt(heap, typeobj, impltype)

\* a lookup that depends on what has been allocated: once any object has been
\* created it returns the type unchanged
type_descriptor_unstable(heap, dialect, typeobj) ==
    IF Len(heap) > Len(MemoHeap0) THEN Existing(heap, typeobj)
    ELSE adapt_type(heap, typeobj, MemoDialects[dialect].colspecs)

\* DefaultDialect.type_descriptor
type_descriptor(heap, dialect, typeobj) ==
    adapt_type(heap, typeobj, MemoDialects[dialect].colspecs)

TypeEngine_gen_dialect_impl(heap, self, dialect) == type_descriptor(heap, dialect, self)

TypeDecorator_load_dialect_impl(heap, self, dialect) == heap[self].impl

\* a variant that always selects the base type
Variant_load_dialect_impl_base(heap, self, dialect) == heap[self].impl

Variant_load_dialect_impl(heap, self, dialect) ==
    IF MemoDialects[dialect].name \in DOMAIN heap[self].mapping
    THEN heap[self].mapping[MemoDialects[dialect].name]
    ELSE heap[self].impl

load_dialect_impl(heap, self, dialect) ==
    LET m == ResolveMethod({"TypeDecorator", "Variant"}, heap[self].cls)
    IN  CASE m = "TypeDecorator" -> TypeDecorator_load_dialect_impl(heap, self, dialect)
          [] m = "Variant"       -> Variant_load_dialect_impl(heap, self, dialect)

\* instance = self.__class__.__new__(self.__class__); __dict__ copied
TypeDecorator_copy(heap, self) == Allocated(heap, heap[self])

\* the user's override: a new MyType around the same impl
BadCopyType_copy(heap, self) ==
    Allocated(heap, DecoratorOf("MyType", heap[self].impl, "base", "base"))

\* self.copy(), by the class that defines the method
copy(heap, self) ==
    LET m == ResolveMethod({"TypeDecorator", "BadCopyType"}, heap[self].cls)
    IN  CASE m = "TypeDecorator" -> TypeDecorator_copy(heap, self)
          [] m = "BadCopyType"   -> BadCopyType_copy(heap, self)

(***************************************************************************)
(* Threads: each runs one call at a time as a stack of frames; every       *)
(* action below is one atomic step of the interpreter on the shared dicts. *)
(***************************************************************************)
Threads == {1, 2}

Ok(v) == [kind |-> "ok", value |-> v]

TypeRef(id) == [ref |-> "type", id |-> id]

DictRef(id) == [ref |-> "dict", id |-> id]

\* the calls a thread makes: method and the key it reads in the memo dict
MemoOps ==
    {[fn |-> "dialect_impl", key |-> "impl"],
     [fn |-> "_cached_bind_processor", key |-> "bind"]}
    \cup {[fn |-> "_cached_result_processor", key |-> c] : c \in mColtypes}

Frame(fn, self, dialect, key, pc) ==
    [fn |-> fn, self |-> self, dialect |-> dialect, key |-> key, pc |-> pc, impl |-> 0]

\* wrote: the dicts this thread has stored in a memo
IdleThread(calls, wrote) ==
    [calls |-> calls, wrote |-> wrote, stack |-> <<>>, ret |-> None, cur |-> None]

Top(thr) == thr.stack[Len(thr.stack)]

WithTop(thr, f) == [thr EXCEPT !.stack = [@ EXCEPT ![Len(@)] = f]]

Push(thr, f) == [thr EXCEPT !.stack = Append(@, f)]

\* the top frame is a frame of fn at pc
At(t, fns, pc) ==
    /\ t \in mActive
    /\ mThreads[t].stack # <<>>
    /\ Top(mThreads[t]).fn \in fns
    /\ Top(mThreads[t]).pc = pc

\* return v from the top frame: to the calling frame, or to the caller
Return(t, thr, v) ==
    IF Len(thr.stack) = 1
    THEN /\ mThreads' = [mThreads EXCEPT ![t] = IdleThread(thr.calls, thr.wrote)]
         /\ mLast' = [mLast EXCEPT ![t] = [thr.cur EXCEPT !.result = Ok(v)]]
    ELSE /\ mThreads' = [mThreads EXCEPT ![t] =
                            [thr EXCEPT !.stack = SubSeq(@, 1, Len(@) - 1), !.ret = v]]
         /\ UNCHANGED mLast

\* an exception no frame catches: the call ends with it
RaiseIn(t, thr, exc) ==
    /\ mThreads' = [mThreads EXCEPT ![t] = IdleThread(thr.calls, thr.wrote)]
    /\ mLast' = [mLast EXCEPT ![t] = [thr.cur EXCEPT !.result = Raise(exc)]]

CallLimit == IF Cardinality(mActive) = 1 THEN MaxCalls ELSE MaxConcCalls

OpFns == {op.fn : op \in MemoOps}

\* a thread calls dialect_impl / _cached_bind_processor / _cached_result_processor
Call(t) ==
    /\ t \in mActive
    /\ mThreads[t].stack = <<>>
    /\ mThreads[t].calls < CallLimit
    /\ \E k \in mScope, op \in MemoOps :
          mThreads' = [mThreads EXCEPT ![t] =
              [calls |-> @.calls + 1,
               wrote |-> @.wrote,
               stack |-> <<Frame(op.fn, k[1], k[2], op.key, "try")>>,
               ret |-> None,
               cur |-> [fn |-> op.fn, self |-> k[1], dialect |-> k[2],
                        key |-> op.key, pre |-> mMemo, preDicts |-> mDicts,
                        td |-> {}, built |-> {}, result |-> None]]]
    /\ UNCHANGED <<mHeap, mDicts, mMemo, mActive, mScope, mColtypes, mLast, mFailures>>
    /\ UNCHANGED <<codecVars, variantVars, inferVars, pickleVars, adaptVars>>

\* a variant that takes a cached None for a missing key
TryLookup_nonemiss(t) ==
    /\ At(t, OpFns, "try")
    /\ LET thr == mThreads[t]
           f == Top(thr)
           memo == mMemo[f.dialect]
       IN  IF /\ f.self \in DOMAIN memo
              /\ f.key \in DOMAIN mDicts[memo[f.self]]
              /\ mDicts[memo[f.self]][f.key] # NoProc
           THEN Return(t, thr, mDicts[memo[f.self]][f.key])
           ELSE /\ mThreads' = [mThreads EXCEPT ![t] =
                       Push(WithTop(thr, [f EXCEPT !.pc = "except"]),
                            Frame("_dialect_info", f.self, f.dialect, "", "check"))]
                /\ UNCHANGED mLast
    /\ UNCHANGED <<mHeap, mDicts, mMemo, mActive, mScope, mColtypes, mFailures>>
    /\ UNCHANGED <<codecVars, variantVars, inferVars, pickleVars, adaptVars>>

\* try: return dialect._type_memos[self][key]; except KeyError: _dialect_info
TryLookup(t) ==
    /\ At(t, OpFns, "try")
    /\ LET thr == mThreads[t]
           f == Top(thr)
           memo == mMemo[f.dialect]
       IN  IF f.self \in DOMAIN memo /\ f.key \in DOMAIN mDicts[memo[f.self]]
           THEN Return(t, thr, mDicts[memo[f.self]][f.key])
           ELSE /\ mThreads' = [mThreads EXCEPT ![t] =
                       Push(WithTop(thr, [f EXCEPT !.pc = "except"]),
                            Frame("_dialect_info", f.self, f.dialect, "", "check"))]
                /\ UNCHANGED mLast
    /\ UNCHANGED <<mHeap, mDicts, mMemo, mActive, mScope, mColtypes, mFailures>>
    /\ UNCHANGED <<codecVars, variantVars, inferVars, pickleVars, adaptVars>>

\* a variant without the membership test: impl is always computed
InfoCheck_nocheck(t) ==
    /\ At(t, {"_dialect_info"}, "check")
    /\ mThreads' = [mThreads EXCEPT ![t] =
           WithTop(mThreads[t], [Top(mThreads[t]) EXCEPT !.pc = "gen"])]
    /\ UNCHANGED <<mHeap, mDicts, mMemo, mActive, mScope, mColtypes, mLast, mFailures>>
    /\ UNCHANGED <<codecVars, variantVars, inferVars, pickleVars, adaptVars>>

\* a variant of the membership test that reserves the slot with an empty dict
\* before impl is computed
InfoCheck_reserve(t) ==
    /\ At(t, {"_dialect_info"}, "check")
    /\ LET thr == mThreads[t]
           f == Top(thr)
       IN  IF f.self \in DOMAIN mMemo[f.dialect]
           THEN /\ mThreads' = [mThreads EXCEPT ![t] = WithTop(thr, [f EXCEPT !.pc = "get"])]
                /\ UNCHANGED <<mDicts, mMemo>>
           ELSE /\ mThreads' = [mThreads EXCEPT ![t] = WithTop(thr, [f EXCEPT !.pc = "gen"])]
                /\ mDicts' = Append(mDicts, <<>>)
                /\ mMemo' = [mMemo EXCEPT ![f.dialect] = DictSet(@, f.self, Len(mDicts) + 1)]
    /\ UNCHANGED <<mHeap, mActive, mScope, mColtypes, mLast, mFailures>>
    /\ UNCHANGED <<codecVars, variantVars, inferVars, pickleVars, adaptVars>>

\* _dialect_info: if self in dialect._type_memos
InfoCheck(t) ==
    /\ At(t, {"_dialect_info"}, "check")
    /\ LET thr == mThreads[t]
           f == Top(thr)
       IN  mThreads' = [mThreads EXCEPT ![t] =
               WithTop(thr, [f EXCEPT !.pc = IF f.self \in DOMAIN mMemo[f.dialect]
                                             THEN "get" ELSE "gen"])]
    /\ UNCHANGED <<mHeap, mDicts, mMemo, mActive, mScope, mColtypes, mLast, mFailures>>
    /\ UNCHANGED <<codecVars, variantVars, inferVars, pickleVars, adaptVars>>

\* _dialect_info: return dialect._type_memos[self]
InfoGet(t) ==
    /\ At(t, {"_dialect_info"}, "get")
    /\ LET thr == mThreads[t]
           f == Top(thr)
       IN  Return(t, thr, DictRef(mMemo[f.dialect][f.self]))
    /\ UNCHANGED <<mHeap, mDicts, mMemo, mActive, mScope, mColtypes, mFailures>>
    /\ UNCHANGED <<codecVars, variantVars, inferVars, pickleVars, adaptVars>>

\* a variant that takes the dialect's answer as it is, without the
\* substitution and without the assertion
ImplForMemo_unchecked(heap, self, impl) == [heap |-> heap, id |-> impl, ok |-> TRUE]

\* _dialect_info, lines 206-209: a type the dialect returned unchanged is
\* replaced by self.adapt(type(self)); ok is the assertion impl is not self
ImplForMemo(heap, self, impl) ==
    LET r == IF impl = self THEN adapt(heap, self, heap[self].cls)
             ELSE Existing(heap, impl)
    IN  [heap |-> r.heap, id |-> r.id, ok |-> r.id # self]

\* the steps of _dialect_info after impl is known, up to the assertion
AfterGen(t, thr, f, i) ==
    /\ mHeap' = i.heap
    /\ IF i.ok
       THEN /\ mThreads' = [mThreads EXCEPT ![t] =
                   WithTop(thr, [f EXCEPT !.pc = "store", !.impl = i.id])]
            /\ UNCHANGED mLast
       ELSE RaiseIn(t, thr, "AssertionError")

\* impl = self._gen_dialect_impl(dialect): dialect.type_descriptor(self)
\* returns or raises; a TypeDecorator the dialect leaves unchanged goes on
\* to self.load_dialect_impl(dialect).dialect_impl(dialect)
GenDialectImpl(t) ==
    /\ At(t, {"_dialect_info"}, "gen")
    /\ LET f == Top(mThreads[t])
           thr == [mThreads[t] EXCEPT !.cur.td = @ \cup {<<f.self, f.dialect>>}]
       IN  \/ /\ mFailures < MaxFailures
              /\ mFailures' = mFailures + 1
              /\ RaiseIn(t, thr, "LookupError")
              /\ UNCHANGED mHeap
           \/ /\ LET r == type_descriptor(mHeap, f.dialect, f.self)
                     m == ResolveMethod({"TypeEngine", "TypeDecorator"}, mHeap[f.self].cls)
                 IN  IF m = "TypeDecorator" /\ r.id = f.self
                     THEN /\ mHeap' = r.heap
                          /\ mThreads' = [mThreads EXCEPT ![t] =
                                Push(WithTop(thr, [f EXCEPT !.pc = "copy"]),
                                     Frame("dialect_impl",
                                           load_dialect_impl(mHeap, f.self, f.dialect),
                                           f.dialect, "impl", "try"))]
                          /\ UNCHANGED mLast
                     ELSE AfterGen(t, thr, f, ImplForMemo(r.heap, f.self, r.id))
              /\ UNCHANGED mFailures
    /\ UNCHANGED <<mDicts, mMemo, mActive, mScope, mColtypes>>
    /\ UNCHANGED <<codecVars, variantVars, inferVars, pickleVars, adaptVars>>

\* a variant without the isinstance check on the copy
GenCopy_nocheck(t) ==
    /\ At(t, {"_dialect_info"}, "copy")
    /\ LET thr == mThreads[t]
           f == Top(thr)
           c == copy(mHeap, f.self)
           linked == [c.heap EXCEPT ![c.id].impl = thr.ret.id]
       IN  AfterGen(t, thr, f, ImplForMemo(linked, f.self, c.id))
    /\ UNCHANGED <<mDicts, mMemo, mActive, mScope, mColtypes, mFailures>>
    /\ UNCHANGED <<codecVars, variantVars, inferVars, pickleVars, adaptVars>>

\* a variant that links the dialect's implementation into self and copies
\* afterwards
GenCopy_inplace(t) ==
    /\ At(t, {"_dialect_info"}, "copy")
    /\ LET thr == mThreads[t]
           f == Top(thr)
           linked == [mHeap EXCEPT ![f.self].impl = thr.ret.id]
           c == TypeDecorator_copy(linked, f.self)
       IN  AfterGen(t, thr, f, ImplForMemo(c.heap, f.self, c.id))
    /\ UNCHANGED <<mDicts, mMemo, mActive, mScope, mColtypes, mFailures>>
    /\ UNCHANGED <<codecVars, variantVars, inferVars, pickleVars, adaptVars>>

\* TypeDecorator._gen_dialect_impl, lines 465-472: tt = self.copy(), the
\* isinstance check, tt.impl = typedesc
GenCopy(t) ==
    /\ At(t, {"_dialect_info"}, "copy")
    /\ LET thr == mThreads[t]
           f == Top(thr)
           c == copy(mHeap, f.self)
           linked == [c.heap EXCEPT ![c.id].impl = thr.ret.id]
       IN  IF IsSubclass(c.heap[c.id].cls, mHeap[f.self].cls)
           THEN AfterGen(t, thr, f, ImplForMemo(linked, f.self, c.id))
           ELSE /\ RaiseIn(t, thr, "AssertionError")
                /\ mHeap' = c.heap
    /\ UNCHANGED <<mDicts, mMemo, mActive, mScope, mColtypes, mFailures>>
    /\ UNCHANGED <<codecVars, variantVars, inferVars, pickleVars, adaptVars>>

\* a variant that publishes the dict before 'impl' is put in it
InfoStore_partial(t) ==
    /\ At(t, {"_dialect_info"}, "store")
    /\ LET thr == mThreads[t]
           f == Top(thr)
       IN  /\ mDicts' = Append(mDicts, <<>>)
           /\ mMemo' = [mMemo EXCEPT ![f.dialect] = DictSet(@, f.self, Len(mDicts) + 1)]
           /\ Return(t, [thr EXCEPT !.wrote = @ \cup {Len(mDicts) + 1}],
                     DictRef(Len(mDicts) + 1))
    /\ UNCHANGED <<mHeap, mActive, mScope, mColtypes, mFailures>>
    /\ UNCHANGED <<codecVars, variantVars, inferVars, pickleVars, adaptVars>>

\* dialect._type_memos[self] = d = {'impl': impl}; return d
InfoStore(t) ==
    /\ At(t, {"_dialect_info"}, "store")
    /\ LET thr == mThreads[t]
           f == Top(thr)
       IN  /\ mDicts' = Append(mDicts, DictOf("impl", TypeRef(f.impl)))
           /\ mMemo' = [mMemo EXCEPT ![f.dialect] = DictSet(@, f.self, Len(mDicts) + 1)]
           /\ Return(t, [thr EXCEPT !.wrote = @ \cup {Len(mDicts) + 1}],
                     DictRef(Len(mDicts) + 1))
    /\ UNCHANGED <<mHeap, mActive, mScope, mColtypes, mFailures>>
    /\ UNCHANGED <<codecVars, variantVars, inferVars, pickleVars, adaptVars>>

\* a variant that starts the entry afresh around the new processor
OpExcept_resetentry(t) ==
    /\ At(t, OpFns, "except")
    /\ LET thr == mThreads[t]
           f == Top(thr)
           d == thr.ret.id
       IN  IF "impl" \notin DOMAIN mDicts[d]
           THEN RaiseIn(t, thr, "KeyError") /\ UNCHANGED mDicts
           ELSE IF f.fn = "dialect_impl"
           THEN Return(t, thr, mDicts[d]["impl"]) /\ UNCHANGED mDicts
           ELSE LET impl == Deref(mHeap, mDicts[d]["impl"].id)
                    p == IF f.fn = "_cached_bind_processor"
                         THEN bind_processor(impl, MemoDialects[f.dialect])
                         ELSE result_processor(impl, MemoDialects[f.dialect], f.key)
                IN  /\ mDicts' = [mDicts EXCEPT ![d] =
                                      DictSet(DictOf("impl", @["impl"]), f.key, p)]
                    /\ Return(t, [thr EXCEPT !.cur.built = @ \cup {f.key}], p)
    /\ UNCHANGED <<mHeap, mMemo, mActive, mScope, mColtypes, mFailures>>
    /\ UNCHANGED <<codecVars, variantVars, inferVars, pickleVars, adaptVars>>

\* a variant that builds the processors from the generic type, not from d['impl']
OpExcept_fromself(t) ==
    /\ At(t, OpFns, "except")
    /\ LET thr == mThreads[t]
           f == Top(thr)
           d == thr.ret.id
       IN  IF "impl" \notin DOMAIN mDicts[d]
           THEN RaiseIn(t, thr, "KeyError") /\ UNCHANGED mDicts
           ELSE IF f.fn = "dialect_impl"
           THEN Return(t, thr, mDicts[d]["impl"]) /\ UNCHANGED mDicts
           ELSE LET self == Deref(mHeap, f.self)
                    p == IF f.fn = "_cached_bind_processor"
                         THEN bind_processor(self, MemoDialects[f.dialect])
                         ELSE result_processor(self, MemoDialects[f.dialect], f.key)
                IN  /\ mDicts' = [mDicts EXCEPT ![d] = DictSet(@, f.key, p)]
                    /\ Return(t, [thr EXCEPT !.cur.built = @ \cup {f.key}], p)
    /\ UNCHANGED <<mHeap, mMemo, mActive, mScope, mColtypes, mFailures>>
    /\ UNCHANGED <<codecVars, variantVars, inferVars, pickleVars, adaptVars>>

\* after _dialect_info returned d: return d['impl'], or
\* d[key] = p = d['impl'].bind_processor(dialect) / .result_processor(dialect, coltype)
OpExcept(t) ==
    /\ At(t, OpFns, "except")
    /\ LET thr == mThreads[t]
           f == Top(thr)
           d == thr.ret.id
       IN  IF "impl" \notin DOMAIN mDicts[d]
           THEN RaiseIn(t, thr, "KeyError") /\ UNCHANGED mDicts
           ELSE IF f.fn = "dialect_impl"
           THEN Return(t, thr, mDicts[d]["impl"]) /\ UNCHANGED mDicts
           ELSE LET impl == Deref(mHeap, mDicts[d]["impl"].id)
                    p == IF f.fn = "_cached_bind_processor"
                         THEN bind_processor(impl, MemoDialects[f.dialect])
                         ELSE result_processor(impl, MemoDialects[f.dialect], f.key)
                IN  /\ mDicts' = [mDicts EXCEPT ![d] = DictSet(@, f.key, p)]
                    /\ Return(t, [thr EXCEPT !.cur.built = @ \cup {f.key}], p)
    /\ UNCHANGED <<mHeap, mMemo, mActive, mScope, mColtypes, mFailures>>
    /\ UNCHANGED <<codecVars, variantVars, inferVars, pickleVars, adaptVars>>

MemoInitFor(active, scope, coltypes) ==
    /\ AdaptIdle
    /\ CodecIdle
    /\ VariantIdle
    /\ InferIdle
    /\ PickleIdle
    /\ mHeap = MemoHeap0
    /\ mDicts = <<>>
    /\ mMemo = [d \in DialectIds |-> <<>>]
    /\ mThreads = [t \in Threads |-> IdleThread(0, {})]
    /\ mActive = active
    /\ mScope = scope
    /\ mColtypes = coltypes
    /\ mLast = [t \in Threads |-> None]
    /\ mFailures = 0

MemoNext ==
    \E t \in Threads :
        \/ Call(t)
        \/ TryLookup(t)
        \/ InfoCheck(t)
        \/ InfoGet(t)
        \/ GenDialectImpl(t)
        \/ GenCopy(t)
        \/ InfoStore(t)
        \/ OpExcept(t)

MemoInitWith(active, scope) == MemoInitFor(active, scope, MemoColtypes)

\* one caller, any of the type objects on any dialect
MemoInit == MemoInitWith({1}, MemoRoots \X DialectIds)

SpecMemo == MemoInit /\ [][MemoNext]_vars

\* two threads resolving the same type object on the same dialect
ConcInit == \E k \in MemoRoots \X DialectIds : MemoInitWith(Threads, {k})

SpecConc == ConcInit /\ [][MemoNext]_vars

\* one caller resolving the Variant on either dialect
VariantImplInit == MemoInitWith({1}, {6} \X DialectIds)

SpecVariantImpl == VariantImplInit /\ [][MemoNext]_vars

\* one caller resolving the decorator whose copy() is broken, and its impl
CopyCheckInit == MemoInitWith({1}, {9, 10} \X DialectIds)

SpecCopyCheck == CopyCheckInit /\ [][MemoNext]_vars

\* the coltype values of the result-processor calls: two type codes and a
\* value equal to the key of the bind slot
FrameColtypes == {"STRING", "NUMBER", "bind"}

\* one caller resolving a plain type and a decorator under those coltypes
ResultFrameInit == MemoInitFor({1}, {1, 3} \X DialectIds, FrameColtypes)

SpecResultFrame == ResultFrameInit /\ [][MemoNext]_vars

(***************************************************************************)
(* Claims on resolution by a single caller (SpecMemo).                     *)
(***************************************************************************)
\* thread t has completed a call and is not in another
Completed(t) == mThreads[t].stack = <<>> /\ "fn" \in DOMAIN mLast[t]

Raised(call, exc) == IsRaise(call.result) /\ call.result.exc = exc

\* the memo of the call's dialect has an entry for its type that holds the
\* impl and the value the call returned under the call's key
CachedNormally(call) ==
    /\ call.self \in DOMAIN mMemo[call.dialect]
    /\ LET d == mDicts[mMemo[call.dialect][call.self]]
       IN  /\ "impl" \in DOMAIN d
           /\ call.key \in DOMAIN d
           /\ d[call.key] = call.result.value

\* the type's adapt() hands back the type itself
AdaptsToSelf(T) == adapt(mHeap, T, mHeap[T].cls).id = T

\* C6: a resolution whose dialect.type_descriptor raises ends with that error
\* at the caller and leaves the memos as they were, with no entry for the
\* type; a later resolution whose lookup works succeeds and is cached.
C6_FailedResolutionNotCached ==
    Completed(1) =>
        LET last == mLast[1]
        IN  /\ Raised(last, "LookupError") =>
                /\ last.td # {}
                /\ last.self \notin DOMAIN mMemo[last.dialect]
                /\ mMemo = last.pre
                /\ mDicts = last.preDicts
            /\ (mThreads[1].calls = 1 /\ mFailures >= 1) => Raised(last, "LookupError")
            /\ IsRaise(last.result) =>
                \/ Raised(last, "LookupError")
                \/ Raised(last, "AssertionError") /\ AdaptsToSelf(last.self)
            /\ ~IsRaise(last.result) => CachedNormally(last)

\* a lookup failed in the first call; the second call resolved a type from
\* empty memos and its result is cached
C6_Witness ==
    /\ Completed(1)
    /\ mThreads[1].calls = 2
    /\ mFailures = 1
    /\ ~IsRaise(mLast[1].result)
    /\ mLast[1].td # {}
    /\ \A d \in DialectIds : mLast[1].pre[d] = <<>>
    /\ CachedNormally(mLast[1])

\* C7: no memo entry maps a type object to itself as impl; a type the dialect
\* returns unchanged is cached with a distinct copy made by adapt(type(T)),
\* and when adapt returns the type itself the resolution ends with an
\* AssertionError and stores nothing.
C7_NoResolutionCycle ==
    /\ \A d \in DialectIds : \A T \in DOMAIN mMemo[d] :
          LET e == mDicts[mMemo[d][T]]
          IN  /\ "impl" \in DOMAIN e
              /\ e["impl"].id # T
              /\ ~AdaptsToSelf(T)
              /\ (/\ TypeEngine_gen_dialect_impl(mHeap, T, d).id = T
                  /\ ~IsSubclass(mHeap[T].cls, "TypeDecorator"))
                    => /\ e["impl"].id > Len(MemoHeap0)
                       /\ mHeap[e["impl"].id] = mHeap[T]
    /\ (Completed(1) /\ AdaptsToSelf(mLast[1].self)) =>
          /\ \/ Raised(mLast[1], "AssertionError")
             \/ Raised(mLast[1], "LookupError")
          /\ mMemo = mLast[1].pre

\* the String object has been resolved to a copy of itself, and a resolution
\* of the self-adapting type has ended with the AssertionError
C7_Witness ==
    /\ Completed(1)
    /\ Raised(mLast[1], "AssertionError")
    /\ \E d \in DialectIds :
          /\ 1 \in DOMAIN mMemo[d]
          /\ mDicts[mMemo[d][1]]["impl"].id > Len(MemoHeap0)

\* the call found an entry for its type in its dialect's memo when it began
BeganCached(call) == call.self \in DOMAIN call.pre[call.dialect]

\* a completed call on a type already cached for the dialect returns without
\* invoking type_descriptor and leaves the memos alone, dialect_impl returning
\* the cached impl object; a successful call on a type not cached for the
\* dialect invoked type_descriptor for that type and dialect
MemoHit ==
    Completed(1) =>
        LET last == mLast[1]
        IN  /\ BeganCached(last) =>
                /\ last.td = {}
                /\ ~IsRaise(last.result)
                /\ mMemo = last.pre
                /\ last.fn = "dialect_impl" =>
                      last.result.value =
                          last.preDicts[last.pre[last.dialect][last.self]]["impl"]
            /\ (~BeganCached(last) /\ ~IsRaise(last.result)) =>
                  <<last.self, last.dialect>> \in last.td

\* a step keeps every entry: same key, same dict object, same impl
EntriesKept ==
    \A d \in DialectIds : \A T \in DOMAIN mMemo[d] :
        /\ T \in DOMAIN mMemo'[d]
        /\ mMemo'[d][T] = mMemo[d][T]
        /\ mDicts'[mMemo[d][T]]["impl"] = mDicts[mMemo[d][T]]["impl"]

\* C8: with one caller, once (T, D) has been resolved every later
\* dialect_impl(T, D) returns the identical impl object without invoking
\* dialect.type_descriptor, and no step removes or replaces an entry; an
\* entry under one dialect does not serve another dialect.
C8_MemoisedResolution == [](MemoHit) /\ [][EntriesKept]_vars

\* a dialect_impl call on a type already cached has returned
C8_Witness ==
    /\ Completed(1)
    /\ mLast[1].fn = "dialect_impl"
    /\ BeganCached(mLast[1])
    /\ ~IsRaise(mLast[1].result)

(***************************************************************************)
(* Claims on two threads resolving the same key (SpecConc).                *)
(***************************************************************************)
\* the processors an impl object gives on a dialect
Codec(impl, d) ==
    [bind |-> bind_processor(Deref(mHeap, impl), MemoDialects[d]),
     result |-> [c \in MemoColtypes |->
                    result_processor(Deref(mHeap, impl), MemoDialects[d], c)]]

\* what a successful call handed to its caller, as behaviour: the codec of
\* the impl object, or the processor itself
Obtained(call) ==
    IF call.fn = "dialect_impl" THEN Codec(call.result.value.id, call.dialect)
    ELSE call.result.value

\* what the memo entry e gives for the call's key: the processor it holds
\* or the one its impl would build
FromCache(e, call) ==
    IF call.fn = "dialect_impl" THEN Codec(e["impl"].id, call.dialect)
    ELSE IF call.key \in DOMAIN e THEN e[call.key]
    ELSE IF call.fn = "_cached_bind_processor"
         THEN bind_processor(Deref(mHeap, e["impl"].id), MemoDialects[call.dialect])
    ELSE result_processor(Deref(mHeap, e["impl"].id), MemoDialects[call.dialect], call.key)

Succeeded(t) == "fn" \in DOMAIN mLast[t] /\ ~IsRaise(mLast[t].result)

\* C9: with two threads resolving the same (T, D) under every interleaving,
\* the memo holds entries only for objects that existed before, at most one
\* for objects like T, each written by one of the threads, and what the two
\* callers obtained and what the cache gives later behave the same.
C9_ConcurrentResolutionAgrees ==
    /\ \A d \in DialectIds :
          /\ DOMAIN mMemo[d] \subseteq 1..Len(MemoHeap0)
          /\ \A T \in DOMAIN mMemo[d] :
                /\ Cardinality({x \in DOMAIN mMemo[d] : mHeap[x] = mHeap[T]}) = 1
                /\ \E t \in Threads : mMemo[d][T] \in mThreads[t].wrote
    /\ \A t1 \in Threads, t2 \in Threads :
          (/\ Succeeded(t1) /\ Succeeded(t2)
           /\ mLast[t1].fn = mLast[t2].fn
           /\ mLast[t1].key = mLast[t2].key)
             => Obtained(mLast[t1]) = Obtained(mLast[t2])
    /\ \A t \in Threads :
          (Succeeded(t) /\ mLast[t].self \in DOMAIN mMemo[mLast[t].dialect])
             => Obtained(mLast[t]) =
                  FromCache(mDicts[mMemo[mLast[t].dialect][mLast[t].self]], mLast[t])

\* both threads computed and stored an entry for the key, and both calls
\* have returned
C9_Witness ==
    /\ \A t \in Threads : Completed(t) /\ Succeeded(t) /\ mThreads[t].wrote # {}
    /\ mLast[1].fn = mLast[2].fn
    /\ mLast[1].key = mLast[2].key
    /\ mLast[1].self \in DOMAIN mMemo[mLast[1].dialect]

\* C10: every dict in a memo, and every dict a thread holds, has its 'impl';
\* no call ends with a KeyError or with a missing value.
C10_NoPartialEntries ==
    /\ \A d \in DialectIds : \A T \in DOMAIN mMemo[d] :
          "impl" \in DOMAIN mDicts[mMemo[d][T]]
    /\ \A i \in DOMAIN mDicts : "impl" \in DOMAIN mDicts[i]
    /\ \A t \in Threads :
          "fn" \in DOMAIN mLast[t] =>
              /\ ~Raised(mLast[t], "KeyError")
              /\ ~IsRaise(mLast[t].result) =>
                    IF mLast[t].fn = "dialect_impl"
                    THEN mLast[t].result.value.id \in DOMAIN mHeap
                    ELSE "p" \in DOMAIN mLast[t].result.value

\* a thread whose call began with no entry for its type finds, inside
\* _dialect_info, the entry the other thread has stored meanwhile
C10_Witness ==
    \E t \in Threads :
        /\ At(t, {"_dialect_info"}, "get")
        /\ Top(mThreads[t]).self = mThreads[t].cur.self
        /\ ~BeganCached(mThreads[t].cur)

\* the processor the impl of dict e builds for key on dialect d
BuiltByImpl(e, key, d) ==
    IF key = "bind"
    THEN bind_processor(Deref(mHeap, e["impl"].id), MemoDialects[d])
    ELSE result_processor(Deref(mHeap, e["impl"].id), MemoDialects[d], key)

\* C11: in every state, under every interleaving of two threads, each bind
\* or result processor held in a memo entry is the one that entry's own
\* 'impl' builds with bind_processor(dialect) / result_processor(dialect,
\* coltype), not the generic type's and not another entry's.
C11_ProcessorsFromImpl ==
    \A d \in DialectIds : \A T \in DOMAIN mMemo[d] :
        LET e == mDicts[mMemo[d][T]]
        IN  \A key \in DOMAIN e \ {"impl"} : e[key] = BuiltByImpl(e, key, d)

\* both threads stored an entry for the DateTime object on the dialect that
\* adapts it; the entry in the memo holds a bind processor, which differs
\* from the one the generic DateTime builds
C11_Witness ==
    /\ \A t \in Threads : mThreads[t].wrote # {}
    /\ 2 \in DOMAIN mMemo[1]
    /\ "bind" \in DOMAIN mDicts[mMemo[1][2]]
    /\ mDicts[mMemo[1][2]]["bind"] # bind_processor(Deref(mHeap, 2), MemoDialects[1])

(***************************************************************************)
(* Claims on expression type inference (SpecInfer).                        *)
(***************************************************************************)
\* the entries of the left type's table for the operator and the right
\* type's affinity
Entries(left, op, right) ==
    {e \in expression_adaptations(left) : e[1] = op /\ e[2] = type_affinity(right)}

\* C12: for a left type that declares an adaptation table,
\* _adapt_expression(op, right) raises nothing and returns the operator
\* unchanged with the table's entry for (op, affinity(right)), or with
\* NULLTYPE when the operator or the affinity has no entry.
C12_InferenceByTable ==
    (iStage = "done" /\ HasTable(iLeft)) =>
        /\ ~IsRaise(iResult)
        /\ iResult.op = iOp
        /\ IF Entries(iLeft, iOp, iRight) = {}
           THEN iResult.type = NULLTYPE
           ELSE \E e \in Entries(iLeft, iOp, iRight) : iResult.type = ClassRef(e[3])

\* an entry found through the affinity of a right operand whose class is
\* not its affinity
C12_Witness ==
    /\ iStage = "done"
    /\ HasTable(iLeft)
    /\ Entries(iLeft, iOp, iRight) # {}
    /\ iRight.cls # type_affinity(iRight)
    /\ iResult.type # NULLTYPE

\* C13: for every left type of Integer affinity, add with a right operand of
\* Integer affinity infers Integer and add with a right operand of Numeric
\* affinity infers Numeric.
C13_IntegerAddition ==
    (iStage = "done" /\ iOp = "add" /\ type_affinity(iLeft) = "Integer") =>
        /\ type_affinity(iRight) = "Integer" => iResult.type = ClassRef("Integer")
        /\ type_affinity(iRight) = "Numeric" => iResult.type = ClassRef("Numeric")

\* a subclass of Integer added to a Float: Numeric is inferred
C13_Witness ==
    /\ iStage = "done"
    /\ iOp = "add"
    /\ iLeft.cls = "SmallInteger"
    /\ iRight.cls = "Float"
    /\ iResult.type = ClassRef("Numeric")

\* C14: Date minus an operand of Date affinity infers Integer, and Date minus
\* an Interval infers DateTime, the Interval instance reporting affinity
\* Interval and not the affinity of its DateTime impl.
C14_DateSubtraction ==
    (iStage = "done" /\ iOp = "sub" /\ IsSubclass(iLeft.cls, "Date")) =>
        /\ type_affinity(iRight) = "Date" => iResult.type = ClassRef("Integer")
        /\ iRight.cls = "Interval" =>
              /\ type_affinity(iRight) = "Interval"
              /\ type_affinity(iRight) # type_affinity(iRight.impl)
              /\ iResult.type = ClassRef("DateTime")

\* Date minus an Interval whose impl is a DateTime: DateTime is inferred
C14_Witness ==
    /\ iStage = "done"
    /\ iOp = "sub"
    /\ iLeft.cls = "Date"
    /\ iRight.cls = "Interval"
    /\ iRight.impl.cls = "DateTime"
    /\ iResult.type = ClassRef("DateTime")

\* the classes of cls's is-a chain that derive directly from TypeEngine or
\* from UserDefinedType
FamilyRoots(cls) ==
    {c \in Classes :
        /\ IsSubclass(cls, c)
        /\ c \notin {"TypeEngine", "UserDefinedType"}
        /\ InSeq("TypeEngine", Bases(c)) \/ InSeq("UserDefinedType", Bases(c))}

IsDecorator(t) == IsSubclass(t.cls, "TypeDecorator")

\* the examples the claim names
AffinityExamples ==
    /\ iLeft.cls = "SmallInteger" => iAffinity = "Integer"
    /\ iLeft.cls = "Float" => iAffinity = "Numeric"
    /\ iLeft.cls \in {"Unicode", "Enum"} => iAffinity = "String"
    /\ iLeft.cls = "TIMESTAMP" => iAffinity = "DateTime"
    /\ iLeft.cls = "MyUDT" => iAffinity = "MyUDT"

PlainObject(state) == [kind |-> "object", state |-> state]

PickleValues == {ListV(<<>>), ListV(<<1, 2>>), PlainObject(0)}

PickleComparators == {"None", "same_kind", "never", "identity"}

PickleTypes ==
    {PickleTypeOf(PlainType("LargeBinary"), m, c) :
        m \in BOOLEAN, c \in PickleComparators}

\* the object a reference denotes
ValueAt(heap, ref) == IF ref = 0 THEN None ELSE heap[ref]

\* x == y on two references: identity for objects without __eq__
RefEq(heap, x, y) ==
    IF x # 0 /\ y # 0 /\ heap[x].kind = "object" /\ heap[y].kind = "object"
    THEN x = y
    ELSE PyEq(ValueAt(heap, x), ValueAt(heap, y))

\* the caller's comparator, on two references
ComparatorRef(fn, heap, x, y) ==
    IF fn = "identity" THEN x = y
    ELSE Comparator(fn, ValueAt(heap, x), ValueAt(heap, y))

\* a variant that always builds a new object
PickleType_copy_value_always(self, heap, value) ==
    IF value = 0 THEN Existing(heap, 0)
    ELSE Allocated(heap, loads(dumps(heap[value], self.protocol)))

\* PickleType.copy_value: loads(dumps(None)) is None itself, any other value
\* comes back as a new object
PickleType_copy_value(self, heap, value) ==
    IF self.mutable
    THEN IF value = 0 THEN Existing(heap, 0)
         ELSE Allocated(heap, loads(dumps(heap[value], self.protocol)))
    ELSE Existing(heap, value)

\* a variant that consults the comparator only for mutable types
PickleType_compare_values_ifmutable(self, heap, x, y) ==
    IF self.comparator # "None" /\ self.mutable
    THEN ComparatorRef(self.comparator, heap, x, y)
    ELSE RefEq(heap, x, y)

PickleType_compare_values(self, heap, x, y) ==
    IF self.comparator # "None" THEN ComparatorRef(self.comparator, heap, x, y)
    ELSE RefEq(heap, x, y)

PickleType_is_mutable(self) == self.mutable

PickleInit ==
    /\ AdaptIdle
    /\ CodecIdle
    /\ VariantIdle
    /\ InferIdle
    /\ MemoIdle
    /\ pType \in PickleTypes
    /\ pHeap \in {<<a, b>> : a \in PickleValues, b \in PickleValues}
    /\ pV \in {0, 1}
    /\ pCopy = 0
    /\ pOrig = None
    /\ pStage = "start"
    /\ pCmp = None
    /\ pMutable = None

\* copy = type.copy_value(v)
CopyValue ==
    /\ pStage = "start"
    /\ LET r == PickleType_copy_value(pType, pHeap, pV)
       IN  /\ pHeap' = r.heap
           /\ pCopy' = r.id
    /\ pOrig' = ValueAt(pHeap, pV)
    /\ pStage' = "copied"
    /\ UNCHANGED <<pType, pV, pCmp, pMutable>>
    /\ UNCHANGED <<codecVars, variantVars, inferVars, memoVars, adaptVars>>

\* the application changes v in place: v.append(9), or v.state += 1
ChangeInPlace ==
    /\ pStage = "copied"
    /\ pV # 0
    /\ pHeap' = [pHeap EXCEPT ![pV] =
                    IF @.kind = "list" THEN ListV(Append(@.items, 9))
                    ELSE PlainObject(@.state + 1)]
    /\ pStage' = "changed"
    /\ UNCHANGED <<pType, pV, pCopy, pOrig, pCmp, pMutable>>
    /\ UNCHANGED <<codecVars, variantVars, inferVars, memoVars, adaptVars>>

\* type.compare_values(x, y) on any two values
CompareValues ==
    /\ \E x \in 0..Len(pHeap), y \in 0..Len(pHeap) :
          pCmp' = [x |-> x, y |-> y, heap |-> pHeap,
                   result |-> PickleType_compare_values(pType, pHeap, x, y)]
    /\ UNCHANGED <<pType, pHeap, pV, pCopy, pOrig, pStage, pMutable>>
    /\ UNCHANGED <<codecVars, variantVars, inferVars, memoVars, adaptVars>>

\* type.is_mutable()
IsMutable ==
    /\ pMutable = None
    /\ pMutable' = BoolV(PickleType_is_mutable(pType))
    /\ UNCHANGED <<pType, pHeap, pV, pCopy, pOrig, pStage, pCmp>>
    /\ UNCHANGED <<codecVars, variantVars, inferVars, memoVars, adaptVars>>

PickleNext == CopyValue \/ ChangeInPlace \/ CompareValues \/ IsMutable

SpecPickle == PickleInit /\ [][PickleNext]_vars

(***************************************************************************)
(* Claims on PickleType's value methods (SpecPickle).                      *)
(***************************************************************************)
Copied == pStage \in {"copied", "changed"}

C17_ComparatorConsulted ==
    pCmp # None =>
        pCmp.result = IF pType.comparator # "None"
                      THEN ComparatorRef(pType.comparator, pCmp.heap, pCmp.x, pCmp.y)
                      ELSE RefEq(pCmp.heap, pCmp.x, pCmp.y)

\* a type that is not mutable and has a comparator: the comparator's answer
\* is returned where == would have answered otherwise
C17_Witness ==
    /\ pCmp # None
    /\ ~pType.mutable
    /\ pType.comparator # "None"
    /\ pCmp.result # RefEq(pCmp.heap, pCmp.x, pCmp.y)

\* the call began with its key already in the type's entry
BeganWithKey(call) ==
    /\ BeganCached(call)
    /\ call.key \in DOMAIN call.preDicts[call.pre[call.dialect][call.self]]

\* the impl cached for the call's type takes bind_processor from TypeEngine
NeedsNoConversion(call) ==
    /\ call.self \in DOMAIN mMemo[call.dialect]
    /\ ResolveMethod(BindDefiners,
          mHeap[mDicts[mMemo[call.dialect][call.self]]["impl"].id].cls) = "TypeEngine"

\* C18: a type that needs no conversion gives None as bind processor, not a
\* function; once _cached_bind_processor has run for (T, D), a later call
\* returns the cached value, None included, without building the processor
\* again and without touching the memo.
C18_NoProcessorMemoised ==
    (Completed(1) /\ mLast[1].fn = "_cached_bind_processor"
       /\ ~IsRaise(mLast[1].result)) =>
        LET last == mLast[1]
        IN  /\ NeedsNoConversion(last) => last.result.value = NoProc
            /\ BeganWithKey(last) =>
                  /\ last.built = {}
                  /\ last.td = {}
                  /\ last.result.value =
                        last.preDicts[last.pre[last.dialect][last.self]]["bind"]
                  /\ mMemo = last.pre
                  /\ mDicts = last.preDicts
            /\ ~BeganWithKey(last) => last.built = {"bind"}

\* a second _cached_bind_processor call that found None cached and
\* returned it
C18_Witness ==
    /\ Completed(1)
    /\ mLast[1].fn = "_cached_bind_processor"
    /\ BeganWithKey(mLast[1])
    /\ mLast[1].result = Ok(NoProc)
    /\ mLast[1].built = {}

(***************************************************************************)
(* Claims on resolving a Variant (SpecVariantImpl).                        *)
(***************************************************************************)
\* the type the Variant V holds for dialect d, and the one it does not use
Selected(V, d) ==
    IF MemoDialects[d].name \in DOMAIN MemoHeap0[V].mapping
    THEN MemoHeap0[V].mapping[MemoDialects[d].name]
    ELSE MemoHeap0[V].impl

Unselected(V, d) ==
    IF MemoDialects[d].name \in DOMAIN MemoHeap0[V].mapping
    THEN MemoHeap0[V].impl
    ELSE MemoHeap0[V].mapping[CHOOSE n \in DOMAIN MemoHeap0[V].mapping : TRUE]

\* C19: resolving a Variant for dialect D goes through mapping[D.name] when
\* D.name is a key of the mapping and through the base type otherwise: the
\* impl cached for the Variant is a copy of it linked to the selected type's
\* dialect implementation, the processors are the ones that implementation
\* builds, and the unselected type is not resolved at all.
C19_VariantSelection ==
    (Completed(1) /\ ~IsRaise(mLast[1].result)) =>
        LET last == mLast[1]
            d == last.dialect
            sel == Selected(last.self, d)
        IN  /\ sel \in DOMAIN mMemo[d]
            /\ Unselected(last.self, d) \notin DOMAIN mMemo[d]
            /\ LET e == mDicts[mMemo[d][sel]]
                   own == mDicts[mMemo[d][last.self]]
               IN  /\ mHeap[own["impl"].id].cls = "Variant"
                   /\ mHeap[own["impl"].id].impl = e["impl"].id
                   /\ mHeap[e["impl"].id] = MemoHeap0[sel]
                   /\ last.fn # "dialect_impl" =>
                         last.result.value = BuiltByImpl(e, last.key, d)
                   /\ last.fn = "dialect_impl" => last.result.value = own["impl"]

\* the Variant's bind processor on the dialect named in its mapping: the
\* override's processor, which the base type would not have given
C19_Witness ==
    /\ Completed(1)
    /\ mLast[1].fn = "_cached_bind_processor"
    /\ mLast[1].dialect = 1
    /\ mLast[1].self = 6
    /\ ~IsRaise(mLast[1].result)
    /\ mLast[1].result.value = bind_processor(MemoHeap0[8], MemoDialects[1])
    /\ mLast[1].result.value # bind_processor(MemoHeap0[7], MemoDialects[1])

(***************************************************************************)
(* Claims on the copy a TypeDecorator's resolution makes (SpecMemo).       *)
(***************************************************************************)
\* the decorators among the objects callers resolve
DecoratorRoots == {T \in MemoRoots : IsSubclass(MemoHeap0[T].cls, "TypeDecorator")}

\* the object cached as 'impl' for the type T on dialect d
CachedImpl(T, d) == mDicts[mMemo[d][T]]["impl"].id

\* C22: once a TypeDecorator T the dialect has no class for is resolved for
\* dialect D, the cached impl is another object of T's class, equal to T in
\* every attribute but impl, and its impl is the dialect implementation
\* cached for load_dialect_impl(D); T itself is as it was constructed.
C22_DecoratorNotModified ==
    \A d \in DialectIds : \A T \in DecoratorRoots :
        T \in DOMAIN mMemo[d] =>
            LET c == CachedImpl(T, d)
                L == load_dialect_impl(MemoHeap0, T, d)
            IN  /\ c # T
                /\ mHeap[c].cls = mHeap[T].cls
                /\ mHeap[c] = [mHeap[T] EXCEPT !.impl = mHeap[c].impl]
                /\ L \in DOMAIN mMemo[d]
                /\ mHeap[c].impl = CachedImpl(L, d)
                /\ mHeap[c].impl # L
                /\ mHeap[T] = MemoHeap0[T]
                /\ mHeap[T].impl = L

\* the decorator resolved: its copy is cached and linked to another object
\* than the decorator's own impl
C22_Witness ==
    /\ Completed(1)
    /\ mLast[1].self = 3
    /\ ~IsRaise(mLast[1].result)
    /\ 3 \in DOMAIN mMemo[mLast[1].dialect]
    /\ CachedImpl(3, mLast[1].dialect) > Len(MemoHeap0)
    /\ mHeap[CachedImpl(3, mLast[1].dialect)].impl # mHeap[3].impl
    /\ mHeap[3].impl = 4

(***************************************************************************)
(* SpecAdapt: adapt_type called with a type object or a class and a        *)
(* colspecs dict.                                                          *)
(***************************************************************************)
AdaptHeap0 ==
    <<PlainType("DateTime"),
      PlainType("TIMESTAMP"),
      PlainType("DialectDateTime"),
      StringType("Unicode", "True", TRUE),
      PlainType("SelfAdapting"),
      PlainType("Integer")>>

\* the classes handed to adapt_type in place of an instance
AdaptClasses == {"DateTime", "Boolean"}

\* the items colspecs dicts are made of; each generic class has one item
ColspecItems ==
    {<<"DateTime", "DialectDateTime">>, <<"String", "VARCHAR">>,
     <<"TypeEngine", "NullType">>, <<"Integer", "BIGINT">>}

\* if isinstance(typeobj, type): typeobj = typeobj()
Instantiate(heap, typeobj) ==
    IF typeobj.ref = "class" THEN Allocated(heap, PlainType(typeobj.cls))
    ELSE Existing(heap, typeobj.id)

\* adapt_type(typeobj, colspecs) for either kind of argument
adapt_type_arg(heap, typeobj, colspecs) ==
    LET inst == Instantiate(heap, typeobj)
    IN  adapt_type(inst.heap, inst.id, colspecs)

AdaptInit ==
    /\ CodecIdle
    /\ VariantIdle
    /\ InferIdle
    /\ MemoIdle
    /\ PickleIdle
    /\ aHeap = AdaptHeap0
    /\ aTypeobj \in {TypeRef(i) : i \in DOMAIN AdaptHeap0}
                    \cup {ClassRef(c) : c \in AdaptClasses}
    /\ aColspecs \in SUBSET ColspecItems
    /\ aStage = "start"
    /\ aResult = 0

AdaptType ==
    /\ aStage = "start"
    /\ LET r == adapt_type_arg(aHeap, aTypeobj, aColspecs)
       IN  /\ aHeap' = r.heap
           /\ aResult' = r.id
    /\ aStage' = "done"
    /\ UNCHANGED <<aTypeobj, aColspecs>>
    /\ UNCHANGED <<codecVars, variantVars, inferVars, memoVars, pickleVars>>

AdaptNext == AdaptType

SpecAdapt == AdaptInit /\ [][AdaptNext]_vars

\* the instance adapt_type works on: the argument, or the object made of it
AdaptInstance ==
    IF aTypeobj.ref = "class" THEN Len(AdaptHeap0) + 1 ELSE aTypeobj.id

\* the positions in the instance's MRO whose class is a key of colspecs
ColspecHits ==
    LET mro == MRO(aHeap[AdaptInstance].cls)
    IN  {k \in 1..Len(mro) : \E e \in aColspecs : e[1] = mro[k]}

\* the implementation class of the most specific key
ChosenImpl ==
    LET mro == MRO(aHeap[AdaptInstance].cls)
        k == CHOOSE h \in ColspecHits : \A g \in ColspecHits : h <= g
    IN  (CHOOSE e \in aColspecs : e[1] = mro[k])[2]

\* C23: adapt_type instantiates a class argument, then takes colspecs[t] for
\* the first class t of the instance's MRO that is a key; with no key in the
\* MRO, or when the instance's class is a subclass of the class found, the
\* instance itself is returned, and otherwise what its adapt() returns for
\* that class.  The objects that existed are not changed.
C23_AdaptType ==
    aStage = "done" =>
        LET inst == AdaptInstance
            before == IF aTypeobj.ref = "class"
                      THEN Append(AdaptHeap0, PlainType(aTypeobj.cls)) ELSE AdaptHeap0
        IN  /\ SubSeq(aHeap, 1, Len(before)) = before
            /\ IF ColspecHits = {} THEN aResult = inst /\ aHeap = before
               ELSE IF IsSubclass(before[inst].cls, ChosenImpl)
               THEN aResult = inst /\ aHeap = before
               ELSE /\ aResult = adapt(before, inst, ChosenImpl).id
                    /\ aHeap = adapt(before, inst, ChosenImpl).heap
                    /\ before[inst].cls # "SelfAdapting" =>
                          /\ aResult = Len(before) + 1
                          /\ aHeap[aResult] = [before[inst] EXCEPT !.cls = ChosenImpl]

\* a TIMESTAMP under a colspecs that maps DateTime and TypeEngine: the
\* DateTime item is the one used and a new DialectDateTime comes back
C23_Witness ==
    /\ aStage = "done"
    /\ aTypeobj = TypeRef(2)
    /\ {<<"DateTime", "DialectDateTime">>, <<"TypeEngine", "NullType">>} \subseteq aColspecs
    /\ aResult = Len(AdaptHeap0) + 1
    /\ aHeap[aResult].cls = "DialectDateTime"

(***************************************************************************)
(* Claims on _coerce_compared_value (SpecInfer).                           *)
(***************************************************************************)
\* the column's class takes TypeDecorator's _coerce_compared_value as it is
DefaultDecorator(t) ==
    /\ IsSubclass(t.cls, "TypeDecorator")
    /\ ~IsSubclass(t.cls, "Interval")

\* C24: for a column type that is not a TypeDecorator, _coerce_compared_value
\* returns the column type itself when the value's Python type has no entry
\* in _type_map or maps to NULLTYPE, or when the mapped type has the column
\* type's affinity, and the mapped type otherwise; a binary type returns
\* itself for every str or unicode value; a TypeDecorator that keeps the
\* default returns itself for every value.
C24_LiteralCoercion ==
    iStage = "coerced" =>
        LET v == iCoerced.value
            r == iCoerced.type
            mapped == type_map_get(PyType(v))
        IN  /\ DefaultDecorator(iLeft) => r = iLeft
            /\ (IsSubclass(iLeft.cls, "_Binary") /\ IsBasestring(v)) => r = iLeft
            /\ (~IsSubclass(iLeft.cls, "TypeDecorator")
                /\ ~(IsSubclass(iLeft.cls, "_Binary") /\ IsBasestring(v))) =>
                  IF \/ PyType(v) \notin DOMAIN type_map
                     \/ mapped.cls = "NullType"
                     \/ type_affinity(mapped) = type_affinity(iLeft)
                  THEN r = iLeft
                  ELSE r = mapped /\ r # iLeft

\* an Integer column compared with a float: the value is given Numeric
C24_Witness ==
    /\ iStage = "coerced"
    /\ iLeft.cls = "Integer"
    /\ iCoerced.value.kind = "float"
    /\ iCoerced.type.cls = "Numeric"
    /\ iCoerced.type # iLeft

(***************************************************************************)
(* Claims on a TypeDecorator whose copy() returns an object of another     *)
(* class (SpecCopyCheck).                                                  *)
(***************************************************************************)
\* the last call was made on the decorator with the broken copy()
BadCopyCall == Completed(1) /\ mHeap[mLast[1].self].cls = "BadCopyType"

\* C25 as stated: the resolution raises AssertionError and the memos are
\* what they were before the call, with no entry for the decorator and none
\* for the type load_dialect_impl selected.
C25_CacheUnchangedAfterFailedCopy ==
    (BadCopyCall /\ mLast[1].result = Raise("AssertionError")) =>
        /\ mMemo = mLast[1].pre
        /\ mDicts = mLast[1].preDicts

\* C25 amended: a resolution of the decorator never succeeds and caches no
\* entry for the decorator; when it ends with AssertionError the type that
\* load_dialect_impl selected has been resolved before copy() was called, so
\* its entry is in the dialect's memo, created by this call if it was not
\* there; entries that existed and the other dialect's memo are unchanged.
C25_FailedCopyCachesImplOnly ==
    BadCopyCall =>
        LET last == mLast[1]
            d == last.dialect
            L == load_dialect_impl(MemoHeap0, last.self, d)
        IN  /\ IsRaise(last.result)
            /\ last.result.exc \in {"AssertionError", "LookupError"}
            /\ \A e \in DialectIds : last.self \notin DOMAIN mMemo[e]
            /\ last.result.exc = "AssertionError" =>
                  /\ L \in DOMAIN mMemo[d]
                  /\ "impl" \in DOMAIN mDicts[mMemo[d][L]]
                  /\ DOMAIN mMemo[d] = DOMAIN last.pre[d] \cup {L}
                  /\ \A k \in DOMAIN last.pre[d] : mMemo[d][k] = last.pre[d][k]
                  /\ \A e \in DialectIds \ {d} : mMemo[e] = last.pre[e]
                  /\ SubSeq(mDicts, 1, Len(last.preDicts)) = last.preDicts

\* the failed resolution left an entry for the decorator's impl that was not
\* there before
C25_Witness ==
    /\ BadCopyCall
    /\ mLast[1].result = Raise("AssertionError")
    /\ 10 \in DOMAIN mMemo[mLast[1].dialect]
    /\ 10 \notin DOMAIN mLast[1].pre[mLast[1].dialect]
    /\ 9 \notin DOMAIN mMemo[mLast[1].dialect]

(***************************************************************************)
(* Claims on what _cached_result_processor writes (SpecResultFrame).       *)
(***************************************************************************)
\* the last call was _cached_result_processor
ResultCall == Completed(1) /\ mLast[1].fn = "_cached_result_processor"

\* the memos of the other dialects, the entries of the types that had one and
\* every dict but T's are as before the last call
OthersKept ==
    LET last == mLast[1]
        d == last.dialect
        T == last.self
    IN  /\ \A e \in DialectIds \ {d} : mMemo[e] = last.pre[e]
        /\ \A k \in DOMAIN last.pre[d] :
              k \in DOMAIN mMemo[d] /\ mMemo[d][k] = last.pre[d][k]
        /\ \A i \in 1..Len(last.preDicts) :
              (T \notin DOMAIN last.pre[d] \/ i # last.pre[d][T])
                  => mDicts[i] = last.preDicts[i]

\* the slots of T's entry other than the one keyed k are as before the call
SlotsKeptBut(k) ==
    LET last == mLast[1]
        d == last.dialect
        T == last.self
    IN  T \in DOMAIN last.pre[d] =>
            LET old == last.preDicts[last.pre[d][T]]
                new == mDicts[mMemo[d][T]]
            IN  /\ DOMAIN new \subseteq DOMAIN old \cup {k}
                /\ \A s \in DOMAIN old \ {k} : s \in DOMAIN new /\ new[s] = old[s]

\* the 'bind' slot of T's entry is as before the call, absent if T had no entry
BindSlotKept ==
    LET last == mLast[1]
        d == last.dialect
        T == last.self
        old == IF T \in DOMAIN last.pre[d] THEN last.preDicts[last.pre[d][T]] ELSE <<>>
        new == IF T \in DOMAIN mMemo[d] THEN mDicts[mMemo[d][T]] ELSE <<>>
    IN  IF "bind" \in DOMAIN old
        THEN "bind" \in DOMAIN new /\ new["bind"] = old["bind"]
        ELSE "bind" \notin DOMAIN new

\* C26 as stated: _cached_result_processor(D, coltype) on T changes at most
\* the coltype slot of T's entry in D's memo, creating the entry if absent;
\* the bind processor, the other slots, the entries of other type instances
\* and the other dialects' memos are unchanged, whatever coltype is.
C26_ResultFrameEveryCall ==
    ResultCall =>
        /\ OthersKept
        /\ SlotsKeptBut(mLast[1].key)
        /\ BindSlotKept
        /\ DOMAIN mMemo[mLast[1].dialect]
              \subseteq DOMAIN mLast[1].pre[mLast[1].dialect] \cup {mLast[1].self}

\* C26 amended: the call leaves the other dialects' memos, the entries that
\* existed and all slots of T's entry but the one keyed coltype as they were;
\* the bind slot is left alone when coltype is not the string 'bind'; the
\* entries it creates are T's and, for a TypeDecorator T without an entry,
\* the one of the type load_dialect_impl selects, resolved on the way.
C26_ResultFrame ==
    ResultCall =>
        LET last == mLast[1]
            d == last.dialect
            T == last.self
            viaImpl == IF IsSubclass(MemoHeap0[T].cls, "TypeDecorator")
                          /\ T \notin DOMAIN last.pre[d]
                       THEN {load_dialect_impl(MemoHeap0, T, d)} ELSE {}
        IN  /\ OthersKept
            /\ SlotsKeptBut(last.key)
            /\ last.key # "bind" => BindSlotKept
            /\ DOMAIN mMemo[d] \subseteq DOMAIN last.pre[d] \cup {T} \cup viaImpl
            /\ ~IsRaise(last.result) =>
                  /\ T \in DOMAIN mMemo[d]
                  /\ last.key \in DOMAIN mDicts[mMemo[d][T]]
                  /\ mDicts[mMemo[d][T]][last.key] = last.result.value

\* a second coltype cached beside the first: both slots are in T's entry
C26_Witness ==
    /\ ResultCall
    /\ mLast[1].key = "NUMBER"
    /\ ~IsRaise(mLast[1].result)
    /\ mLast[1].self \in DOMAIN mLast[1].pre[mLast[1].dialect]
    /\ "STRING" \in DOMAIN mLast[1].preDicts[mLast[1].pre[mLast[1].dialect][mLast[1].self]]
    /\ "NUMBER" \notin DOMAIN mLast[1].preDicts[mLast[1].pre[mLast[1].dialect][mLast[1].self]]
    /\ {"impl", "STRING", "NUMBER"}
          = DOMAIN mDicts[mMemo[mLast[1].dialect][mLast[1].self]]

(***************************************************************************)
(* Claims on NullType's and TypeDecorator's inference (SpecInfer).         *)
(***************************************************************************)
\* C27: NullType._adapt_expression(op, other) returns the operator unchanged
\* and the NullType it was called on when other is a NullType or op is not
\* commutative; for a commutative op and any other type it returns what
\* other._adapt_expression(op, NULLTYPE) returns.
C27_NullTypeInference ==
    (iStage = "done" /\ iLeft.cls = "NullType") =>
        IF IsSubclass(iRight.cls, "NullType") \/ iOp \notin Commutative
        THEN iResult = Inferred(iOp, iLeft)
        ELSE /\ iResult = adapt_expression(iRight, iOp, NULLTYPE)
             /\ iResult = adapt_expression(iRight, iOp, iLeft)

\* a NullType that is not the NULLTYPE object, added to a String: the String
\* infers the concatenation and itself
C27_Witness ==
    /\ iStage = "done"
    /\ iLeft.cls = "NullType" /\ iLeft # NULLTYPE
    /\ iOp = "add"
    /\ iRight.cls = "String"
    /\ iResult = Inferred("concat_op", iRight)

\* the column's class takes TypeDecorator's _adapt_expression
InfersAsDecorator(t) ==
    ResolveMethod({"TypeEngine", "UserDefinedType", "TypeDecorator", "NullType",
                   "Concatenable", "_DateAffinity"}, t.cls) = "TypeDecorator"

\* C28: TypeDecorator._adapt_expression(op, other) returns the operator its
\* impl's _adapt_expression returned, with the decorator itself when the
\* impl inferred the impl object and with the impl's inferred type otherwise;
\* an exception of the impl's inference passes through.
C28_DecoratorInference ==
    (iStage = "done" /\ InfersAsDecorator(iLeft)) =>
        LET r == adapt_expression(iLeft.impl, iOp, iRight)
        IN  IF IsRaise(r) THEN iResult = r
            ELSE /\ iResult.op = r.op
                 /\ IF "id" \in DOMAIN r.type /\ r.type.id = iLeft.impl.id
                    THEN iResult.type = iLeft
                    ELSE iResult.type = r.type /\ iResult.type # iLeft

\* a decorator around a String added to a String: the impl infers itself with
\* the concatenation operator, and the decorator comes back with that operator
C28_Witness ==
    /\ iStage = "done"
    /\ iLeft.cls = "MyType" /\ iLeft.impl.cls = "String"
    /\ iOp = "add"
    /\ iRight.cls = "String"
    /\ iResult = Inferred("concat_op", iLeft)

====
